---------------------------- MODULE Spec2Model ----------------------------
(***************************************************************************)
(* Model of the timing-annotation engine of the karaoke front end          *)
(* (TimingSyncPage): the annotation document, the bubble-up propagation,   *)
(* the recording-mode state machine, the timestamp recorder, the token     *)
(* navigation and the export cleanup pass.                                 *)
(*                                                                         *)
(* One action of the model is one host event (a key-down, a key-up, a      *)
(* click, a timer callback) together with the React render and the effects *)
(* it triggers, up to quiescence.                                          *)
(***************************************************************************)
EXTENDS Integers, Sequences, FiniteSets, TLC

(***************************************************************************)
(* Bounds of the model.                                                    *)
(***************************************************************************)
\* the audio clock runs over 0..MaxTime (milliseconds after rounding)
MaxTime == 2
\* number of key-downs that start a recording
MaxHolds == 2
\* number of unlock timers pending at a time
MaxPending == 1
\* number of key-downs that start a recording in the longer sessions
MaxDeepHolds == 3
\* number of key-downs that start a recording in the sync-lock sessions
MaxSyncHolds == 1
\* the stamps of the uploaded documents run over 0..MaxStamp
MaxStamp == 3
\* the playback clock runs over 0..MaxPlayTime
MaxPlayTime == 3
\* the audio durations of the playback screen run over 0..MaxDuration
MaxDuration == 9
\* the greatest voice id that addVoice is followed up to
MaxVoices == 2
\* recordings started in a session with the voice panel
MaxVoiceHolds == 1

\* the recording modes, coarsest first
Modes == <<"blocks", "lines", "words", "chars">>
ModeSet == {"blocks", "lines", "words", "chars"}
ModeIndex(m) == CHOOSE i \in 1..4 : Modes[i] = m

(***************************************************************************)
(* Texts are sequences of one-character strings, so that trim, split and   *)
(* join are computed and not assumed.                                      *)
(***************************************************************************)
WhiteSpace == {" ", "\t", "\n"}

RECURSIVE TrimStart(_)
TrimStart(t) ==
    IF t # <<>> /\ Head(t) \in WhiteSpace THEN TrimStart(Tail(t)) ELSE t

RECURSIVE TrimEnd(_)
TrimEnd(t) ==
    IF t # <<>> /\ t[Len(t)] \in WhiteSpace
    THEN TrimEnd(SubSeq(t, 1, Len(t) - 1)) ELSE t

\* String.prototype.trim
trim(t) == TrimEnd(TrimStart(t))

RECURSIVE ConcatAll(_)
\* Array.prototype.flat over a sequence of sequences
ConcatAll(ss) == IF ss = <<>> THEN <<>> ELSE Head(ss) \o ConcatAll(Tail(ss))

RECURSIVE Join(_, _)
\* Array.prototype.join
Join(ts, sep) ==
    IF ts = <<>> THEN <<>>
    ELSE IF Len(ts) = 1 THEN ts[1]
    ELSE ts[1] \o sep \o Join(Tail(ts), sep)

SetMin(S) == CHOOSE x \in S : \A y \in S : x <= y
SetMax(S) == CHOOSE x \in S : \A y \in S : x >= y

(***************************************************************************)
(* The annotation document: blocks > lines > words > chars.  A line whose  *)
(* words array is absent has hasWords = FALSE (and words = <<>>), likewise *)
(* hasChars for a word.                                                    *)
(***************************************************************************)
MkChar(c) ==
    [text |-> <<c>>, start |-> 0, end |-> 0, voice |-> 0, position |-> ""]

MkWord(t) ==
    [text |-> t, start |-> 0, end |-> 0, voice |-> 0, position |-> "",
     hasChars |-> TRUE, chars |-> [i \in 1..Len(t) |-> MkChar(t[i])]]

MkLine(t, ws) ==
    [text |-> t, start |-> 0, end |-> 0, voice |-> 0, position |-> "",
     hasWords |-> TRUE, words |-> [i \in 1..Len(ws) |-> MkWord(ws[i])]]

MkBlock(ls) ==
    [text |-> <<>>, start |-> 0, end |-> 0, voice |-> 0, position |-> "C",
     lines |-> ls]

RECURSIVE SplitAcc(_, _, _)
SplitAcc(t, sep, cur) ==
    IF t = <<>> THEN <<cur>>
    ELSE IF Head(t) = sep THEN <<cur>> \o SplitAcc(Tail(t), sep, <<>>)
    ELSE SplitAcc(Tail(t), sep, Append(cur, Head(t)))

\* String.prototype.split(sep) for a one-character separator
Split(t, sep) == SplitAcc(t, sep, <<>>)

RECURSIVE SplitKeepAcc(_, _, _)
SplitKeepAcc(t, sep, cur) ==
    IF t = <<>> THEN <<cur>>
    ELSE IF Head(t) = sep
         THEN <<cur, <<sep>>>> \o SplitKeepAcc(Tail(t), sep, <<>>)
         ELSE SplitKeepAcc(Tail(t), sep, Append(cur, Head(t)))

\* String.prototype.split(/( )/g): the pieces and the separators between them
SplitKeep(t, sep) == SplitKeepAcc(t, sep, <<>>)

\* the words of a line as the segmentation step makes them:
\* lineText.split(' ').filter(word => word.trim())
LineWords(t) ==
    LET NonBlank(w) == trim(w) # <<>> IN SelectSeq(Split(t, " "), NonBlank)

\* the document createKaraokeJSON builds from a text whose blocks are the
\* given sequences of (non-blank) line texts: all timings 0, all voices 0
createKaraokeJSON(blockLines) ==
    [b \in 1..Len(blockLines) |->
        MkBlock([l \in 1..Len(blockLines[b]) |->
                    MkLine(blockLines[b][l], LineWords(blockLines[b][l]))])]

(***************************************************************************)
(* Flattened token lists.                                                  *)
(***************************************************************************)
\* the value of a field that a token object does not have
Undefined == -1

Token(type, node, text, voice, b, l, w, c, hasTiming) ==
    [type |-> type, text |-> text, voice |-> voice,
     start |-> IF hasTiming THEN node.start ELSE Undefined,
     end |-> IF hasTiming THEN node.end ELSE Undefined,
     blockIndex |-> b, lineIndex |-> l, wordIndex |-> w, charIndex |-> c,
     \* whether the token is a node of the document (not a fallback split)
     isNode |-> hasTiming]

\* a || b on voice ids
OrVoice(a, b) == IF a # 0 THEN a ELSE b

\* the tokens of one line in words mode
WordTokensOfLine(line, b, l) ==
    IF line.hasWords
    THEN [w \in 1..Len(line.words) |->
            Token("word", line.words[w], line.words[w].text,
                  OrVoice(line.words[w].voice, line.voice),
                  b - 1, l - 1, w - 1, Undefined, TRUE)]
    ELSE LET parts == SplitKeep(line.text, " ")
             idx == SelectSeq([i \in 1..Len(parts) |-> i],
                              LAMBDA i : Len(parts[i]) > 0)
         IN [k \in 1..Len(idx) |->
                Token("word", line, parts[idx[k]], line.voice,
                      b - 1, l - 1, idx[k] - 1, Undefined, FALSE)]

\* the tokens of one word in chars mode
CharTokensOfWord(line, word, b, l, w) ==
    IF word.hasChars
    THEN [c \in 1..Len(word.chars) |->
            Token("char", word.chars[c], word.chars[c].text,
                  OrVoice(word.chars[c].voice, OrVoice(word.voice, line.voice)),
                  b - 1, l - 1, w - 1, c - 1, TRUE)]
    ELSE [c \in 1..Len(word.text) |->
            Token("char", word, <<word.text[c]>>,
                  OrVoice(word.voice, line.voice),
                  b - 1, l - 1, w - 1, c - 1, FALSE)]

\* the tokens of one line in chars mode
CharTokensOfLine(line, b, l) ==
    IF line.hasWords
    THEN ConcatAll([w \in 1..Len(line.words) |->
                      CharTokensOfWord(line, line.words[w], b, l, w)])
    ELSE [c \in 1..Len(line.text) |->
            Token("char", line, <<line.text[c]>>, line.voice,
                  b - 1, l - 1, Undefined, c - 1, FALSE)]

\* getTokensByMode: the token list the cursor, the navigation and the
\* whitespace check use
getTokensByMode(bs, mode) ==
    CASE mode = "blocks" ->
           [b \in 1..Len(bs) |->
              Token("block", bs[b],
                    Join([l \in 1..Len(bs[b].lines) |-> bs[b].lines[l].text],
                         <<"\n">>),
                    bs[b].voice, b - 1, Undefined, Undefined, Undefined, TRUE)]
      [] mode = "lines" ->
           ConcatAll([b \in 1..Len(bs) |->
              [l \in 1..Len(bs[b].lines) |->
                 Token("line", bs[b].lines[l], bs[b].lines[l].text,
                       bs[b].lines[l].voice, b - 1, l - 1, Undefined,
                       Undefined, TRUE)]])
      [] mode = "words" ->
           ConcatAll([b \in 1..Len(bs) |->
              ConcatAll([l \in 1..Len(bs[b].lines) |->
                 WordTokensOfLine(bs[b].lines[l], b, l)])])
      [] mode = "chars" ->
           ConcatAll([b \in 1..Len(bs) |->
              ConcatAll([l \in 1..Len(bs[b].lines) |->
                 CharTokensOfLine(bs[b].lines[l], b, l)])])
      [] OTHER -> <<>>

\* isSpaceToken: token && token.text && token.text.trim() === ''
isSpaceToken(token) == token.text # <<>> /\ trim(token.text) = <<>>


\* getTokensByModeType: the token list findRelatedToken and the mode switches
\* use; every token is a document node and carries the node's own text.
\* (The source iterates line.words and word.chars without a guard; an absent
\* array contributes no token here.)
getTokensByModeType(bs, mode) ==
    CASE mode = "blocks" ->
           [b \in 1..Len(bs) |->
              Token("block", bs[b], bs[b].text, bs[b].voice,
                    b - 1, Undefined, Undefined, Undefined, TRUE)]
      [] mode = "lines" ->
           ConcatAll([b \in 1..Len(bs) |->
              [l \in 1..Len(bs[b].lines) |->
                 Token("line", bs[b].lines[l], bs[b].lines[l].text,
                       bs[b].lines[l].voice, b - 1, l - 1, Undefined,
                       Undefined, TRUE)]])
      [] mode = "words" ->
           ConcatAll([b \in 1..Len(bs) |->
              ConcatAll([l \in 1..Len(bs[b].lines) |->
                 [w \in 1..Len(bs[b].lines[l].words) |->
                    Token("word", bs[b].lines[l].words[w],
                          bs[b].lines[l].words[w].text,
                          bs[b].lines[l].words[w].voice,
                          b - 1, l - 1, w - 1, Undefined, TRUE)]])])
      [] mode = "chars" ->
           ConcatAll([b \in 1..Len(bs) |->
              ConcatAll([l \in 1..Len(bs[b].lines) |->
                 ConcatAll([w \in 1..Len(bs[b].lines[l].words) |->
                    [c \in 1..Len(bs[b].lines[l].words[w].chars) |->
                       Token("char", bs[b].lines[l].words[w].chars[c],
                             bs[b].lines[l].words[w].chars[c].text,
                             bs[b].lines[l].words[w].chars[c].voice,
                             b - 1, l - 1, w - 1, c - 1, TRUE)]])])])
      [] OTHER -> <<>>

\* a scan that stops at the first index, space token or not
NextAny(tokens, from) ==
    IF from >= Len(tokens) THEN Len(tokens) ELSE from

RECURSIVE NextNonSpace(_, _)
\* the least 0-based index i >= from whose token is no space token, or
\* Len(tokens) when there is none
NextNonSpace(tokens, from) ==
    IF from >= Len(tokens) THEN Len(tokens)
    ELSE IF isSpaceToken(tokens[from + 1]) THEN NextNonSpace(tokens, from + 1)
    ELSE from

RECURSIVE PrevNonSpace(_, _)
\* the greatest 0-based index i <= from whose token is no space token, or -1
PrevNonSpace(tokens, from) ==
    IF from < 0 THEN -1
    ELSE IF from >= Len(tokens) THEN from
    ELSE IF isSpaceToken(tokens[from + 1]) THEN PrevNonSpace(tokens, from - 1)
    ELSE from

\* findFirstNonSpaceTokenIndex (0-based; 0 when there is none)
findFirstNonSpaceTokenIndex(tokens) ==
    IF NextNonSpace(tokens, 0) < Len(tokens) THEN NextNonSpace(tokens, 0) ELSE 0

(***************************************************************************)
(* Bubble-up propagation.                                                  *)
(***************************************************************************)
\* the timed-children filter of the bubble-up: start > 0 && end > 0
HasValidTiming(t) == t.start > 0 /\ t.end > 0

\* a bubble-up that always takes the children's minimum
shouldUpdateStartAlways(parentStart, childMin) == TRUE

\* !parent.start || parent.start === 0 || parent.start > childMin
shouldUpdateStart(parentStart, childMin) ==
    parentStart = 0 \/ parentStart > childMin

\* !parent.end || parent.end === 0 || parent.end < childMax
shouldUpdateEnd(parentEnd, childMax) ==
    parentEnd = 0 \/ parentEnd < childMax

\* one parent recomputed from its children
UpdateFromChildren(parent, kids) ==
    LET timed == {i \in 1..Len(kids) : HasValidTiming(kids[i])}
    IN IF timed = {} THEN parent
       ELSE LET childMin == SetMin({kids[i].start : i \in timed})
                childMax == SetMax({kids[i].end : i \in timed})
            IN [parent EXCEPT
                  !.start = IF shouldUpdateStart(@, childMin)
                            THEN childMin ELSE @,
                  !.end = IF shouldUpdateEnd(@, childMax)
                          THEN childMax ELSE @]

\* a bubble-up that hands the first line's voice to a block without one
updateBlockTimingFromLinesAndVoice(bs) ==
    [b \in 1..Len(bs) |->
        [UpdateFromChildren(bs[b], bs[b].lines) EXCEPT
            !.voice = IF @ = 0 /\ Len(bs[b].lines) > 0
                      THEN bs[b].lines[1].voice ELSE @]]

updateBlockTimingFromLines(bs) ==
    [b \in 1..Len(bs) |-> UpdateFromChildren(bs[b], bs[b].lines)]

updateParentTimingFromWords(bs) ==
    updateBlockTimingFromLines(
        [b \in 1..Len(bs) |->
            [bs[b] EXCEPT !.lines =
                [l \in 1..Len(@) |-> UpdateFromChildren(@[l], @[l].words)]]])

updateParentTimingFromChars(bs) ==
    updateParentTimingFromWords(
        [b \in 1..Len(bs) |->
            [bs[b] EXCEPT !.lines =
                [l \in 1..Len(@) |->
                    [@[l] EXCEPT !.words =
                        [w \in 1..Len(@) |->
                            UpdateFromChildren(@[w], @[w].chars)]]]]])

(***************************************************************************)
(* TimestampRecorder.                                                      *)
(***************************************************************************)
\* node[type] = currentTime, and node.voice = currentVoice on a start
SetStamp(node, type, t, voice) ==
    IF type = "start" THEN [node EXCEPT !.start = t, !.voice = voice]
    ELSE [node EXCEPT !.end = t]

\* updatedData.blocks.flatMap(block => block.lines), as paths <<b, l>>
allLines(bs) ==
    ConcatAll([b \in 1..Len(bs) |->
        [l \in 1..Len(bs[b].lines) |-> <<b, l>>]])

\* blocks.flatMap(block => block.lines.flatMap(line => line.words || []))
allWords(bs) ==
    ConcatAll([b \in 1..Len(bs) |->
        ConcatAll([l \in 1..Len(bs[b].lines) |->
            [w \in 1..Len(bs[b].lines[l].words) |-> <<b, l, w>>]])])

\* ... line.words ? line.words.flatMap(word => word.chars || []) : []
allChars(bs) ==
    ConcatAll([b \in 1..Len(bs) |->
        ConcatAll([l \in 1..Len(bs[b].lines) |->
            ConcatAll([w \in 1..Len(bs[b].lines[l].words) |->
                [c \in 1..Len(bs[b].lines[l].words[w].chars) |->
                    <<b, l, w, c>>]])])])

\* recordTimestamp gets past its guards and calls setKaraokeData: the active
\* token exists (tokens[activeTokenIndex].text is read) and is no space token
RecordCommits(bs, mode, idx) ==
    /\ idx < Len(getTokensByMode(bs, mode))
    /\ ~isSpaceToken(getTokensByMode(bs, mode)[idx + 1])

\* the switch of recordTimestamp: the write and the bubble-up
RecordWrite(bs, mode, idx, type, t, voice) ==
    CASE mode = "blocks" ->
           IF idx < Len(bs)
           THEN [bs EXCEPT ![idx + 1] = SetStamp(@, type, t, voice)]
           ELSE bs
      [] mode = "lines" ->
           IF idx < Len(allLines(bs))
           THEN LET p == allLines(bs)[idx + 1]
                IN updateBlockTimingFromLines(
                     [bs EXCEPT ![p[1]].lines[p[2]] =
                         SetStamp(@, type, t, voice)])
           ELSE bs
      [] mode = "words" ->
           IF idx < Len(allWords(bs))
           THEN LET p == allWords(bs)[idx + 1]
                IN updateParentTimingFromWords(
                     [bs EXCEPT ![p[1]].lines[p[2]].words[p[3]] =
                         SetStamp(@, type, t, voice)])
           ELSE bs
      [] mode = "chars" ->
           IF idx < Len(allChars(bs))
           THEN LET p == allChars(bs)[idx + 1]
                IN updateParentTimingFromChars(
                     [bs EXCEPT ![p[1]].lines[p[2]].words[p[3]].chars[p[4]] =
                         SetStamp(@, type, t, voice)])
           ELSE bs
      [] OTHER -> bs

\* recordTimestamp throws a TypeError: tokens[activeTokenIndex] is undefined,
\* isSpaceToken(undefined) is falsy, and the log line reads currentToken.text
recordTimestampThrows(bs, mode, idx) ==
    idx >= Len(getTokensByMode(bs, mode))

\* recordTimestamp(timestamp, type) with the timestamp already in milliseconds
recordTimestamp(bs, mode, idx, type, t, voice) ==
    IF RecordCommits(bs, mode, idx)
    THEN RecordWrite(bs, mode, idx, type, t, voice)
    ELSE bs

(***************************************************************************)
(* Export cleanup.                                                         *)
(***************************************************************************)
\* the timed filter of the cleanup: start !== 0 || end !== 0
IsTimed(t) == t.start # 0 \/ t.end # 0

\* Math.round(base + k * (duration / n)): the quotient is exact in the
\* model's range (half-way cases only arise for n = 2 and n = 4, where the
\* floating-point quotient is exact), and Math.round rounds halves up
RoundDiv(base, k, duration, n) ==
    (2 * (n * base + k * duration) + n) \div (2 * n)

\* an interpolation that fills the untimed children only
InterpolateUntimed(child, index, count, parent, voice) ==
    IF child.start # 0 \/ child.end # 0 THEN child
    ELSE [child EXCEPT
            !.start = RoundDiv(parent.start, index, parent.end - parent.start,
                               count),
            !.end = RoundDiv(parent.start, index + 1,
                             parent.end - parent.start, count),
            !.voice = OrVoice(@, voice)]

\* "use linear distribution for all": child index (0-based) of count under
\* the parent's bounds, with the voice inherited where the child has none
Interpolate(child, index, count, parent, voice) ==
    [child EXCEPT
        !.start = RoundDiv(parent.start, index, parent.end - parent.start, count),
        !.end = RoundDiv(parent.start, index + 1, parent.end - parent.start, count),
        !.voice = OrVoice(@, voice)]

\* how many of the children pass the timed filter
TimedCount(kids) == Cardinality({i \in 1..Len(kids) : IsTimed(kids[i])})

\* a chars pass that keeps an array none of whose members is timed
CleanCharsKeepUntimed(word, line) ==
    IF ~word.hasChars THEN word
    ELSE IF TimedCount(word.chars) > 0
            /\ TimedCount(word.chars) < Len(word.chars)
    THEN [word EXCEPT !.chars =
            [c \in 1..Len(@) |->
                Interpolate(@[c], c - 1, Len(word.chars), word,
                            OrVoice(word.voice, line.voice))]]
    ELSE word

\* the chars pass for one word
CleanChars(word, line) ==
    IF ~word.hasChars THEN word
    ELSE IF TimedCount(word.chars) = 0
    THEN [word EXCEPT !.hasChars = FALSE, !.chars = <<>>]
    ELSE IF TimedCount(word.chars) < Len(word.chars)
    THEN [word EXCEPT !.chars =
            [c \in 1..Len(@) |->
                Interpolate(@[c], c - 1, Len(word.chars), word,
                            OrVoice(word.voice, line.voice))]]
    ELSE word

\* the words pass for one line, then the chars pass for its words
CleanWords(line) ==
    IF ~line.hasWords THEN line
    ELSE IF TimedCount(line.words) = 0
    THEN [line EXCEPT !.hasWords = FALSE, !.words = <<>>]
    ELSE LET ws == IF TimedCount(line.words) < Len(line.words)
                   THEN [w \in 1..Len(line.words) |->
                           Interpolate(line.words[w], w - 1, Len(line.words),
                                       line, line.voice)]
                   ELSE line.words
         IN [line EXCEPT !.words =
                [w \in 1..Len(ws) |-> CleanChars(ws[w], line)]]

\* the lines pass for one block, then the words pass for its lines
CleanBlock(block) ==
    LET ls == IF /\ TimedCount(block.lines) > 0
                 /\ TimedCount(block.lines) < Len(block.lines)
              THEN [l \in 1..Len(block.lines) |->
                      Interpolate(block.lines[l], l - 1, Len(block.lines),
                                  block, block.voice)]
              ELSE block.lines
    IN [block EXCEPT !.lines = [l \in 1..Len(ls) |-> CleanWords(ls[l])]]

\* "Clear text for tokens that have children to avoid duplication"
ClearText(block) ==
    [block EXCEPT
        !.text = IF Len(block.lines) > 0 THEN <<>> ELSE @,
        !.lines = [l \in 1..Len(@) |->
            [@[l] EXCEPT
                !.text = IF block.lines[l].hasWords
                            /\ Len(block.lines[l].words) > 0
                         THEN <<>> ELSE @,
                !.words = [w \in 1..Len(@) |->
                    [@[w] EXCEPT
                        !.text = IF block.lines[l].words[w].hasChars
                                    /\ Len(block.lines[l].words[w].chars) > 0
                                 THEN <<>> ELSE @]]]]]

\* cleanupTimingData on the blocks of a document (a deep copy: the argument
\* is not modified)
cleanupTimingData(bs) ==
    [b \in 1..Len(bs) |-> ClearText(CleanBlock(bs[b]))]

(***************************************************************************)
(* RecordingModeController: the unlock rule and the cross-mode mapping.    *)
(***************************************************************************)
\* an offer that skips a level
getNextRecordingModeSkip(mode) ==
    IF ModeIndex(mode) < 3 THEN Modes[ModeIndex(mode) + 2]
    ELSE IF ModeIndex(mode) = 3 THEN "chars" ELSE "none"

\* getNextRecordingMode; "none" stands for null
getNextRecordingMode(mode) ==
    IF ModeIndex(mode) < 4 THEN Modes[ModeIndex(mode) + 1] ELSE "none"

\* isModeCompleted: every token of the mode has start > 0 && end > 0
isModeCompleted(bs, mode) ==
    \A i \in 1..Len(getTokensByModeType(bs, mode)) :
        HasValidTiming(getTokensByModeType(bs, mode)[i])

\* isCurrentTokenRecorded
isCurrentTokenRecorded(bs, mode, idx) ==
    /\ idx < Len(getTokensByMode(bs, mode))
    /\ HasValidTiming(getTokensByMode(bs, mode)[idx + 1])

\* the completion-based part of updateUnlockedModes: the loop over lines and
\* words stops at the first mode that is not completed
CompletionUnlocked(bs) ==
    IF ~isModeCompleted(bs, "lines") THEN {}
    ELSE IF ~isModeCompleted(bs, "words") THEN {"words"}
    ELSE {"words", "chars"}

\* an unlock rule that starts from the empty set
updateUnlockedModesNoBase(bs, mode, idx) ==
    CompletionUnlocked(bs)
        \cup (IF ModeIndex(mode) < 4 /\ isCurrentTokenRecorded(bs, mode, idx)
              THEN {Modes[ModeIndex(mode) + 1]} ELSE {})
        \cup {mode}

\* an unlock rule without the partial unlock by the current token
updateUnlockedModesByCompletion(bs, mode, idx) ==
    {"blocks", "lines"} \cup CompletionUnlocked(bs) \cup {mode}

\* the value updateUnlockedModes passes to setUnlockedModes when it runs with
\* the given document, recording mode and active index
updateUnlockedModes(bs, mode, idx) ==
    {"blocks", "lines"}
        \cup CompletionUnlocked(bs)
        \cup (IF ModeIndex(mode) < 4 /\ isCurrentTokenRecorded(bs, mode, idx)
              THEN {Modes[ModeIndex(mode) + 1]} ELSE {})
        \cup {mode}

\* whether toToken is related to currentToken at the level named by `level`
Related(level, toToken, currentToken) ==
    /\ toToken.blockIndex = currentToken.blockIndex
    /\ \/ level = "blocks"
       \/ level = "lines" /\ toToken.lineIndex = currentToken.lineIndex
       \/ /\ level = "words"
          /\ toToken.lineIndex = currentToken.lineIndex
          /\ toToken.wordIndex = currentToken.wordIndex

\* findRelatedToken(fromMode, toMode, currentIndex)
findRelatedToken(bs, fromMode, toMode, currentIndex) ==
    LET fromTokens == getTokensByModeType(bs, fromMode)
        toTokens == getTokensByModeType(bs, toMode)
        level == IF ModeIndex(toMode) < ModeIndex(fromMode)
                 THEN toMode ELSE fromMode
        hits == {i \in 1..Len(toTokens) :
                    Related(level, toTokens[i], fromTokens[currentIndex + 1])}
    IN IF \/ Len(fromTokens) = 0
          \/ Len(toTokens) = 0
          \/ currentIndex >= Len(fromTokens)
       THEN 0
       ELSE IF ModeIndex(toMode) = ModeIndex(fromMode) \/ hits = {} THEN 0
       ELSE SetMin(hits) - 1

(***************************************************************************)
(* JSON values, as far as the upload handlers look at them: null, a scalar *)
(* or an object, whose blocks member is absent, a scalar or an array.      *)
(***************************************************************************)
JsonNull == [type |-> "null", blocksType |-> "absent", blocks |-> <<>>]

JsonScalar == [type |-> "scalar", blocksType |-> "absent", blocks |-> <<>>]

JsonObject(blocksType, bs) ==
    [type |-> "object", blocksType |-> blocksType, blocks |-> bs]

(***************************************************************************)
(* The state of the pages.                                                 *)
(***************************************************************************)
VARIABLES
    blocks,            \* karaokeData.blocks
    recordingMode,     \* recordingMode
    activeTokenIndex,  \* activeTokenIndex (0-based)
    isRecording,       \* isRecording
    wKeyPressed,       \* wKeyPressedRef.current (and the wKeyPressed state)
    paused,            \* audioRef.current.paused
    clock,             \* audioRef.current.currentTime, in milliseconds
    unlockedModes,     \* unlockedModes, as a set
    currentVoice,      \* currentVoice
    syncLocked,        \* syncLocked
    bound,             \* the currentVoice and syncLocked that the window key
                       \* listeners captured when they were registered
    timers,            \* pending setTimeout(updateUnlockedModes) callbacks,
                       \* each with the mode and index its closure captured
    holds,             \* number of recordings started so far
    startCommitted,    \* whether the key-down of the recording in progress
                       \* wrote its start timestamp
    voices,            \* voices, as a sequence of [id, name]
    dataVoices,        \* karaokeData.voices
    lyricsJson,        \* LyricsPlaybackScreen: lyricsJson
    currentTime,       \* LyricsPlaybackScreen: currentTime, in milliseconds
    duration,          \* LyricsPlaybackScreen: duration, in milliseconds
    karaokeData,       \* LyricsInputPage: karaokeData
    lyrics,            \* LyricsInputPage: lyrics, as its lines
    alertMessage       \* the alert the last handler raised, "" for none

\* the state of the pages other than TimingSyncPage
screens == <<lyricsJson, currentTime, duration, karaokeData, lyrics,
             alertMessage>>

vars == <<blocks, recordingMode, activeTokenIndex, isRecording, wKeyPressed,
          paused, clock, unlockedModes, currentVoice, syncLocked, bound,
          timers, holds, startCommitted, voices, dataVoices, screens>>

\* the text "ab c" as segmented: one line of two words
SegmentedWords == createKaraokeJSON(<< << <<"a", "b", " ", "c">> >> >>)

\* the text "d\n\ne" as segmented: two blocks of one line each
SegmentedBlocks == createKaraokeJSON(<< << <<"d">> >>, << <<"e">> >> >>)

\* an uploaded document (any JSON with a blocks array is accepted): one
\* line whose text is cleared, as an export leaves it, over the words "x",
\* " " and "y"
UploadedDoc ==
    << MkBlock(<< MkLine(<<>>, << <<"x">>, <<" ">>, <<"y">> >>) >>) >>

InitialDocs == {SegmentedWords, UploadedDoc}

Ctx(mode, idx) == [mode |-> mode, idx |-> idx]

\* a voice entry, as far as the page reads it: the id and the name
Voice(id, name) == [id |-> id, name |-> name]

\* the voices member of a document; a document may have none
Present(list) == [present |-> TRUE, list |-> list]
Absent == [present |-> FALSE, list |-> <<>>]

\* the voices of a document createKaraokeJSON made
CreatedVoices == Present(<< Voice(1, "") >>)

\* useState(initialKaraokeData?.voices || []), and the document's own list
InitVoices(dv) ==
    /\ dataVoices = dv
    /\ voices = dv.list

\* TimingSyncPage opened on one of the documents, before any event
InitDocument(docs) ==
    /\ blocks \in docs
    /\ recordingMode = "blocks"
    /\ activeTokenIndex = 0
    /\ isRecording = FALSE
    /\ wKeyPressed = FALSE
    /\ paused = TRUE
    /\ clock = 0
    /\ unlockedModes = updateUnlockedModes(blocks, "blocks", 0)
    /\ currentVoice = 1
    /\ syncLocked = FALSE
    /\ bound = [voice |-> 1, sync |-> FALSE]
    /\ timers = {}
    /\ holds = 0
    /\ startCommitted = FALSE

InitEditing(docs) == InitDocument(docs) /\ InitVoices(CreatedVoices)

\* the other pages before any event: no document, no audio, no text
ScreensIdle ==
    /\ currentTime = 0
    /\ duration = 0
    /\ karaokeData = JsonNull
    /\ lyrics = <<>>
    /\ alertMessage = ""

\* TimingSyncPage opened on one of the documents
InitWith(docs) ==
    InitEditing(docs) /\ lyricsJson = JsonNull /\ ScreensIdle

Init == InitWith(InitialDocs)

(***************************************************************************)
(* The render that follows a handler: the handler has set the document to  *)
(* bs (dataSet tells whether setKaraokeData was called), the mode to mode  *)
(* and the index to idx0.  The mode-change effect maps the index, the      *)
(* unlock effect runs when one of its dependencies changed, and the key    *)
(* listeners are registered again when one of theirs did (keyDeps).        *)
(***************************************************************************)
MappedIndex(bs, mode, idx0) ==
    IF mode # recordingMode
    THEN findRelatedToken(bs, recordingMode, mode, idx0)
    ELSE idx0

Render(bs, dataSet, mode, idx0, keyDeps) ==
    LET idx1 == MappedIndex(bs, mode, idx0)
        moved == mode # recordingMode \/ idx0 # activeTokenIndex
                    \/ idx1 # activeTokenIndex
    IN /\ blocks' = bs
       /\ recordingMode' = mode
       /\ activeTokenIndex' = idx1
       /\ IF dataSet \/ moved
          THEN unlockedModes' = updateUnlockedModes(bs, mode, idx1)
          ELSE UNCHANGED unlockedModes
       /\ IF dataSet \/ moved \/ keyDeps
          THEN bound' = [voice |-> currentVoice, sync |-> syncLocked]
          ELSE UNCHANGED bound
       \* the voices effect: if (karaokeData?.voices) setVoices(...)
       /\ IF dataSet /\ dataVoices.present
          THEN voices' = dataVoices.list
          ELSE UNCHANGED voices
       /\ UNCHANGED <<dataVoices, screens>>

\* a handler that sets none of the document, the mode and the index
NoRender == UNCHANGED <<blocks, recordingMode, activeTokenIndex,
                        unlockedModes, bound, voices, dataVoices,
                        screens>>

\* the timer recordTimestamp starts when it commits
Scheduled(commits) ==
    IF commits THEN timers \cup {Ctx(recordingMode, activeTokenIndex)}
    ELSE timers

(***************************************************************************)
(* Host events.                                                            *)
(***************************************************************************)
\* the audio clock advances while the audio plays
Tick ==
    /\ ~paused
    /\ clock < MaxTime
    /\ clock' = clock + 1
    /\ UNCHANGED <<blocks, recordingMode, activeTokenIndex, isRecording,
                   wKeyPressed, paused, unlockedModes, currentVoice,
                   syncLocked, bound, timers, holds, startCommitted,
                   voices, dataVoices, screens>>

\* togglePlayPause (space key, play button)
togglePlayPause ==
    /\ paused' = ~paused
    /\ UNCHANGED <<blocks, recordingMode, activeTokenIndex, isRecording,
                   wKeyPressed, clock, unlockedModes, currentVoice,
                   syncLocked, bound, timers, holds, startCommitted,
                   voices, dataVoices, screens>>

\* whether handleKeyDown starts a recording: in chars mode a paused audio
\* is resumed first
KeyDownStarts ==
    ~isRecording /\ (recordingMode = "chars" \/ ~paused)

\* handleKeyDown for the W key; at most maxHolds recordings are started
handleKeyDown(maxHolds) ==
    LET commits == KeyDownStarts /\
                   RecordCommits(blocks, recordingMode, activeTokenIndex)
    IN /\ ~wKeyPressed
       /\ KeyDownStarts => holds < maxHolds
       /\ commits => Cardinality(timers) < MaxPending
       /\ wKeyPressed' = TRUE
       /\ paused' = IF recordingMode = "chars" THEN FALSE ELSE paused
       /\ isRecording' = (isRecording \/ KeyDownStarts)
       /\ holds' = IF KeyDownStarts THEN holds + 1 ELSE holds
       /\ startCommitted' = IF KeyDownStarts THEN commits ELSE startCommitted
       /\ timers' = Scheduled(commits)
       /\ Render(IF KeyDownStarts
                 THEN recordTimestamp(blocks, recordingMode, activeTokenIndex,
                                      "start", clock, bound.voice)
                 ELSE blocks,
                 commits, recordingMode, activeTokenIndex, TRUE)
       /\ UNCHANGED <<clock, currentVoice, syncLocked>>

\* handleKeyUp for the W key when no recording is in progress, or when
\* recordTimestamp throws because there is no active token
KeyUpIdle ==
    /\ wKeyPressed
    /\ \/ ~isRecording
       \/ activeTokenIndex >= Len(getTokensByMode(blocks, recordingMode))
    /\ wKeyPressed' = FALSE
    /\ paused' = IF recordingMode = "chars" THEN TRUE ELSE paused
    /\ Render(blocks, FALSE, recordingMode, activeTokenIndex, TRUE)
    /\ UNCHANGED <<isRecording, clock, currentVoice, syncLocked, timers,
                   holds, startCommitted>>

\* the part of handleKeyUp that follows the end timestamp: the advance to the
\* next non-space token, or at the end of the list the offer (confirm) to
\* proceed to the next mode, which the host accepts or declines
KeyUpAdvance(bs, commits) ==
    LET tokens == getTokensByMode(blocks, recordingMode)
        nextIndex == NextNonSpace(tokens, activeTokenIndex + 1)
        nextMode == getNextRecordingMode(recordingMode)
    IN IF nextIndex < Len(tokens)
       THEN Render(bs, commits, recordingMode, nextIndex, TRUE)
       ELSE IF nextMode = "none"
       THEN Render(bs, commits, recordingMode, activeTokenIndex, TRUE)
       ELSE \E proceed \in BOOLEAN :
              IF proceed
              THEN Render(bs, commits, nextMode,
                          findFirstNonSpaceTokenIndex(
                              getTokensByModeType(bs, nextMode)),
                          TRUE)
              ELSE Render(bs, commits, recordingMode, activeTokenIndex, TRUE)

\* handleKeyUp for the W key while recording
KeyUpRecording ==
    LET commits == RecordCommits(blocks, recordingMode, activeTokenIndex)
    IN /\ wKeyPressed
       /\ isRecording
       /\ activeTokenIndex < Len(getTokensByMode(blocks, recordingMode))
       /\ commits => Cardinality(timers) < MaxPending
       /\ wKeyPressed' = FALSE
       /\ paused' = IF recordingMode = "chars" THEN TRUE ELSE paused
       /\ isRecording' = FALSE
       /\ timers' = Scheduled(commits)
       /\ KeyUpAdvance(recordTimestamp(blocks, recordingMode,
                                       activeTokenIndex, "end", clock,
                                       bound.voice),
                       commits)
       /\ startCommitted' = FALSE
       /\ UNCHANGED <<clock, currentVoice, syncLocked, holds>>

handleKeyUp == KeyUpIdle \/ KeyUpRecording

\* a pending setTimeout(() => updateUnlockedModes(), 100) fires: the closure
\* reads the live document with the mode and index it captured
TimerFires ==
    \E t \in timers :
        /\ timers' = timers \ {t}
        /\ unlockedModes' = updateUnlockedModes(blocks, t.mode, t.idx)
        /\ UNCHANGED <<blocks, recordingMode, activeTokenIndex, isRecording,
                       wKeyPressed, paused, clock, currentVoice, syncLocked,
                       bound, holds, startCommitted, voices, dataVoices,
                       screens>>

\* a mode radio that does not look at the unlocked set
selectModeUnguarded(m) ==
    /\ m # recordingMode
    /\ Render(blocks, FALSE, m,
              findFirstNonSpaceTokenIndex(getTokensByModeType(blocks, m)),
              FALSE)
    /\ UNCHANGED <<isRecording, wKeyPressed, paused, clock, currentVoice,
                   syncLocked, timers, holds, startCommitted>>

\* the onChange of the recording-mode radio for the mode m
selectMode(m) ==
    /\ m # recordingMode
    /\ IF m \in unlockedModes
       THEN Render(blocks, FALSE, m,
                   findFirstNonSpaceTokenIndex(getTokensByModeType(blocks, m)),
                   FALSE)
       ELSE NoRender
    /\ UNCHANGED <<isRecording, wKeyPressed, paused, clock, currentVoice,
                   syncLocked, timers, holds, startCommitted>>

\* the playhead jump of a sync-locked navigation to the token tok
\* (token.start / 1000 is not finite for a token without timing fields)
SyncJump(tok, needTimed) ==
    IF tok.start >= 0 /\ (needTimed => IsTimed(tok)) THEN tok.start ELSE clock

\* goToPreviousToken (button)
goToPreviousToken ==
    LET tokens == getTokensByMode(blocks, recordingMode)
        newIndex == PrevNonSpace(tokens, activeTokenIndex - 1)
    IN /\ IF newIndex >= 0
          THEN /\ Render(blocks, FALSE, recordingMode, newIndex, FALSE)
               /\ clock' = IF syncLocked /\ newIndex < Len(tokens)
                           THEN SyncJump(tokens[newIndex + 1], FALSE)
                           ELSE clock
          ELSE NoRender /\ UNCHANGED clock
       /\ UNCHANGED <<isRecording, wKeyPressed, paused, currentVoice,
                      syncLocked, timers, holds, startCommitted>>

\* goToNextToken (button)
goToNextToken ==
    LET tokens == getTokensByMode(blocks, recordingMode)
        newIndex == NextNonSpace(tokens, activeTokenIndex + 1)
    IN /\ IF newIndex < Len(tokens)
          THEN Render(blocks, FALSE, recordingMode, newIndex, FALSE)
          ELSE NoRender
       /\ UNCHANGED <<isRecording, wKeyPressed, paused, clock, currentVoice,
                      syncLocked, timers, holds, startCommitted>>

\* navigateCurrentLevel(direction) (arrow keys, through the key listener)
navigateCurrentLevel(direction) ==
    LET tokens == getTokensByMode(blocks, recordingMode)
        newIndex == activeTokenIndex + direction
    IN /\ IF newIndex >= 0 /\ newIndex < Len(tokens)
          THEN /\ Render(blocks, FALSE, recordingMode, newIndex, FALSE)
               /\ clock' = IF bound.sync
                           THEN SyncJump(tokens[newIndex + 1], TRUE)
                           ELSE clock
          ELSE NoRender /\ UNCHANGED clock
       /\ UNCHANGED <<isRecording, wKeyPressed, paused, currentVoice,
                      syncLocked, timers, holds, startCommitted>>

\* the jump estimates of navigateParentLevel
wordsPerLine == 5
charsPerWord == 4

\* a clamp at 0 only
ClampBelow(x, hi) == IF x < 0 THEN 0 ELSE x

\* Math.max(0, Math.min(hi, x))
Clamp(x, hi) == IF x > hi THEN (IF hi < 0 THEN 0 ELSE hi)
                ELSE IF x < 0 THEN 0 ELSE x

\* the index navigateParentLevel(direction) passes to setActiveTokenIndex,
\* or -1 when it sets none.  In lines mode every entry of allLines carries
\* the current index as its globalIndex, so the block found is the first
\* entry's: block 0.
ParentTarget(bs, mode, idx, direction) ==
    CASE mode = "lines" ->
           IF Clamp(0 + direction, Len(bs) - 1) # 0
           THEN Len(bs[1].lines)
           ELSE -1
      [] mode = "words" ->
           Clamp(idx + direction * wordsPerLine, Len(allWords(bs)) - 1)
      [] mode = "chars" ->
           Clamp(idx + direction * charsPerWord, Len(allChars(bs)) - 1)
      [] OTHER -> -1

\* navigateParentLevel(direction) (ctrl + arrow keys)
navigateParentLevel(direction) ==
    LET target == ParentTarget(blocks, recordingMode, activeTokenIndex,
                               direction)
    IN /\ IF target >= 0
          THEN Render(blocks, FALSE, recordingMode, target, FALSE)
          ELSE NoRender
       /\ UNCHANGED <<isRecording, wKeyPressed, paused, clock, currentVoice,
                      syncLocked, timers, holds, startCommitted>>

RECURSIVE SeekScan(_, _, _)
\* the loop of handleSeek from the 0-based index i on: the first token that
\* contains the time, or the token after the first gap that contains it;
\* -1 when the loop ends without a hit
SeekScan(tokens, t, i) ==
    IF i >= Len(tokens) THEN -1
    ELSE IF tokens[i + 1].start # Undefined /\ tokens[i + 1].end # Undefined
            /\ tokens[i + 1].start <= t /\ t <= tokens[i + 1].end
    THEN i
    ELSE IF tokens[i + 1].start # Undefined /\ tokens[i + 1].end # Undefined
            /\ i < Len(tokens) - 1
            /\ tokens[i + 1].end < t
            /\ tokens[i + 2].start # Undefined /\ t < tokens[i + 2].start
    THEN i + 1
    ELSE SeekScan(tokens, t, i + 1)

\* the token index a sync-locked seek to time t selects, or -1
SeekTarget(tokens, t) ==
    IF Len(tokens) = 0 THEN -1
    ELSE IF SeekScan(tokens, t, 0) # -1 THEN SeekScan(tokens, t, 0)
    ELSE IF tokens[Len(tokens)].end # Undefined /\ t > tokens[Len(tokens)].end
    THEN Len(tokens) - 1
    ELSE IF tokens[1].start # Undefined /\ t < tokens[1].start
    THEN 0
    ELSE -1

\* a seek that does not look at the W key
handleSeekDuringHold(t) ==
    LET target == SeekTarget(getTokensByMode(blocks, recordingMode), t)
    IN /\ IF paused
          THEN /\ clock' = t
               /\ Render(blocks, FALSE, recordingMode,
                         IF syncLocked /\ target >= 0
                         THEN target ELSE activeTokenIndex,
                         FALSE)
          ELSE NoRender /\ UNCHANGED clock
       /\ UNCHANGED <<isRecording, wKeyPressed, paused, currentVoice,
                      syncLocked, timers, holds, startCommitted>>

\* a seek whose token selection moves the playhead to the selected token
handleSeekSnap(t) ==
    LET tokens == getTokensByMode(blocks, recordingMode)
        target == SeekTarget(tokens, t)
    IN /\ IF ~wKeyPressed /\ paused
          THEN /\ clock' = IF syncLocked /\ target >= 0
                           THEN SyncJump(tokens[target + 1], FALSE) ELSE t
               /\ Render(blocks, FALSE, recordingMode,
                         IF syncLocked /\ target >= 0
                         THEN target ELSE activeTokenIndex,
                         FALSE)
          ELSE NoRender /\ UNCHANGED clock
       /\ UNCHANGED <<isRecording, wKeyPressed, paused, currentVoice,
                      syncLocked, timers, holds, startCommitted>>

\* handleSeek: a click on the progress bar at time t
handleSeek(t) ==
    LET target == SeekTarget(getTokensByMode(blocks, recordingMode), t)
    IN /\ IF ~wKeyPressed /\ paused
          THEN /\ clock' = t
               /\ Render(blocks, FALSE, recordingMode,
                         IF syncLocked /\ target >= 0
                         THEN target ELSE activeTokenIndex,
                         FALSE)
          ELSE NoRender /\ UNCHANGED clock
       /\ UNCHANGED <<isRecording, wKeyPressed, paused, currentVoice,
                      syncLocked, timers, holds, startCommitted>>

\* the sync-lock button: setSyncLocked(!syncLocked); the key listeners are
\* not registered again (syncLocked is none of their dependencies)
toggleSyncLocked ==
    /\ syncLocked' = ~syncLocked
    /\ UNCHANGED <<blocks, recordingMode, activeTokenIndex, isRecording,
                   wKeyPressed, paused, clock, unlockedModes, currentVoice,
                   bound, timers, holds, startCommitted, voices,
                   dataVoices, screens>>

\* the ids of a list of voices
VoiceIds(vs) == {vs[i].id : i \in 1..Len(vs)}

\* what the voice panel leaves alone
voicePanelFrame ==
    UNCHANGED <<blocks, recordingMode, activeTokenIndex, isRecording,
                wKeyPressed, paused, clock, unlockedModes, syncLocked, bound,
                timers, holds, startCommitted, dataVoices, screens>>

\* addVoice: the new id is Math.max(...ids, 0) + 1
addVoice ==
    /\ SetMax(VoiceIds(voices) \cup {0}) < MaxVoices
    /\ voices' = Append(voices,
                        Voice(SetMax(VoiceIds(voices) \cup {0}) + 1, ""))
    /\ UNCHANGED currentVoice
    /\ voicePanelFrame

\* voices.find(v => v.id !== id)?.id || 1
OtherVoice(vs, id) ==
    LET others == SelectSeq(vs, LAMBDA v : v.id # id)
    IN IF others # <<>> /\ others[1].id # 0 THEN others[1].id ELSE 1

\* a removeVoice without the guard that keeps one voice
removeVoiceAny(id) ==
    /\ voices' = SelectSeq(voices, LAMBDA v : v.id # id)
    /\ currentVoice' = IF currentVoice = id
                       THEN OtherVoice(voices, id) ELSE currentVoice
    /\ voicePanelFrame

\* removeVoice(id): the last voice stays
removeVoice(id) ==
    /\ IF Len(voices) <= 1
       THEN UNCHANGED <<voices, currentVoice>>
       ELSE /\ voices' = SelectSeq(voices, LAMBDA v : v.id # id)
            /\ currentVoice' = IF currentVoice = id
                               THEN OtherVoice(voices, id) ELSE currentVoice
    /\ voicePanelFrame

\* updateVoice(id, 'name', value)
updateVoice(id, value) ==
    /\ voices' = [i \in 1..Len(voices) |->
                     IF voices[i].id = id
                     THEN [voices[i] EXCEPT !.name = value] ELSE voices[i]]
    /\ UNCHANGED currentVoice
    /\ voicePanelFrame

\* the voice buttons: setCurrentVoice(voice.id), and setCurrentVoice(0) for
\* "no voice"; the key listeners are not registered again
setCurrentVoice(id) ==
    /\ currentVoice' = id
    /\ UNCHANGED voices
    /\ voicePanelFrame

\* the object exportKaraokeData serialises: the cleaned document with the
\* voices of the panel
exportData == [blocks |-> cleanupTimingData(blocks), voices |-> voices]

\* exportKaraokeData: downloads cleanupTimingData of a deep copy of the
\* document (with the voices and the metadata); the page keeps its state
Exported == cleanupTimingData(blocks)

\* an export that cleans the document of the page instead of a copy
exportKaraokeDataInPlace ==
    /\ blocks' = cleanupTimingData(blocks)
    /\ UNCHANGED <<recordingMode, activeTokenIndex, isRecording, wKeyPressed,
                   paused, clock, unlockedModes, currentVoice, syncLocked,
                   bound, timers, holds, startCommitted, voices, dataVoices,
                   screens>>

exportKaraokeData ==
    /\ Exported = cleanupTimingData(blocks)
    /\ UNCHANGED vars

(***************************************************************************)
(* LyricsPlaybackScreen: the progress of a bar, the linear timing of a     *)
(* document without timing, and the document the screen renders.           *)
(***************************************************************************)
\* a percentage as the fraction num / den, or NaN
Pct(num, den) == [nan |-> FALSE, num |-> num, den |-> den]

NaN == [nan |-> TRUE, num |-> 0, den |-> 1]

\* a progress that jumps to 100 when the token starts
getProgressStep(start, end, now) ==
    IF now < start THEN Pct(0, 1) ELSE Pct(100, 1)

\* getProgress(start, end) with now = currentTime * 1000; when neither
\* comparison holds and start = end the quotient is 0 / 0
getProgress(start, end, now) ==
    IF now < start THEN Pct(0, 1)
    ELSE IF now > end THEN Pct(100, 1)
    ELSE IF end = start THEN NaN
    ELSE Pct((now - start) * 100, end - start)

\* getTokenProgress(token) with currentTimeMs = now, for a token with
\* numeric start and end; the quotient lies in [0, 100] where it is reached,
\* so Math.max(0, Math.min(100, progress)) returns it
getTokenProgress(token, now) ==
    IF token.start = token.end
    THEN (IF now >= token.start THEN Pct(100, 1) ELSE Pct(0, 1))
    ELSE IF now < token.start THEN Pct(0, 1)
    ELSE IF now >= token.end THEN Pct(100, 1)
    ELSE Pct((now - token.start) * 100, token.end - token.start)

\* the tokens the screen draws a bar for: a line with a text, else the words
\* of the line, and for a word with chars its chars
BarTokens(bs) ==
    UNION {
        UNION {
            LET line == bs[b].lines[l]
            IN IF line.text # <<>> THEN {line}
               ELSE UNION {
                   LET word == line.words[w]
                   IN IF word.hasChars /\ Len(word.chars) > 0
                      THEN {word.chars[c] : c \in 1..Len(word.chars)}
                      ELSE {word} : w \in 1..Len(line.words)}
            : l \in 1..Len(bs[b].lines)}
        : b \in 1..Len(bs)}

RECURSIVE Sum(_)
\* Array.prototype.reduce((sum, x) => sum + x, 0)
Sum(xs) == IF xs = <<>> THEN 0 ELSE Head(xs) + Sum(Tail(xs))

\* the text lengths of the words of a line, of a block and of the blocks
LineChars(line) == Sum([w \in 1..Len(line.words) |-> Len(line.words[w].text)])

BlockChars(block) ==
    Sum([l \in 1..Len(block.lines) |-> LineChars(block.lines[l])])

totalChars(bs) == Sum([b \in 1..Len(bs) |-> BlockChars(bs[b])])

\* currentTimeMs / msPerChar when the loop reaches block b, its line l and
\* the word w of it: the number of characters before them
BeforeBlock(bs, b) == totalChars(SubSeq(bs, 1, b - 1))

BeforeLine(bs, b, l) ==
    BeforeBlock(bs, b)
        + BlockChars([bs[b] EXCEPT !.lines = SubSeq(@, 1, l - 1)])

BeforeWord(bs, b, l, w) ==
    BeforeLine(bs, b, l)
        + LineChars([bs[b].lines[l] EXCEPT !.words = SubSeq(@, 1, w - 1)])

\* a block without a lines array, or a line without a words array: the
\* reduce and forEach calls on it throw
Malformed(bs) ==
    \E b \in 1..Len(bs) :
        \/ "lines" \notin DOMAIN bs[b]
        \/ \E l \in 1..Len(bs[b].lines) : ~bs[b].lines[l].hasWords

\* what a render that throws leaves of the screen
TypeError == [type |-> "TypeError", blocksType |-> "absent", blocks |-> <<>>]

\* a linear stamp that is cut to whole milliseconds
LinearStampFloor(k, T, C) == (k * T) \div C

\* Math.round(k * (T / C)): the stamp after k of the C characters of a
\* document of total duration T (the running sum of the code is taken as
\* exact)
LinearStamp(k, T, C) == RoundDiv(0, k, T, C)

\* the blocks generateLinearTiming writes for a document with C > 0
\* characters: words and chars by the running character count, lines and
\* blocks from the count before and after them
LinearBlocks(bs, T) ==
    LET C == totalChars(bs)
        At(k) == LinearStamp(k, T, C)
    IN [b \in 1..Len(bs) |->
         [bs[b] EXCEPT
            !.start = At(BeforeBlock(bs, b)),
            !.end = At(BeforeBlock(bs, b) + BlockChars(bs[b])),
            !.lines = [l \in 1..Len(@) |->
              [@[l] EXCEPT
                 !.start = At(BeforeLine(bs, b, l)),
                 !.end = At(BeforeLine(bs, b, l)
                              + LineChars(bs[b].lines[l])),
                 !.words = [w \in 1..Len(@) |->
                   LET word == bs[b].lines[l].words[w]
                       k == BeforeWord(bs, b, l, w)
                   IN [word EXCEPT
                         !.start = At(k),
                         !.end = At(k + Len(word.text)),
                         !.hasChars = TRUE,
                         !.chars = [c \in 1..Len(word.text) |->
                            [text |-> <<word.text[c]>>,
                             start |-> At(k + c - 1),
                             end |-> At(k + c),
                             voice |-> word.voice,
                             position |-> word.position]]]]]]]]

\* generateLinearTiming(json) for a json with a blocks array, with the
\* screen's duration (in milliseconds)
generateLinearTiming(json, durationMs) ==
    IF durationMs = 0 THEN json
    ELSE IF Malformed(json.blocks) THEN TypeError
    ELSE IF totalChars(json.blocks) = 0 THEN json
    ELSE [json EXCEPT !.blocks = LinearBlocks(@, durationMs)]

\* hasTimingData: some block, line, word or char has start > 0 or end > 0
hasTimingData(bs) ==
    \E b \in 1..Len(bs) :
        \/ bs[b].start > 0 \/ bs[b].end > 0
        \/ /\ "lines" \in DOMAIN bs[b]
           /\ \E l \in 1..Len(bs[b].lines) :
                LET line == bs[b].lines[l]
                IN \/ line.start > 0 \/ line.end > 0
                   \/ \E w \in 1..Len(line.words) :
                        \/ line.words[w].start > 0 \/ line.words[w].end > 0
                        \/ \E c \in 1..Len(line.words[w].chars) :
                             \/ line.words[w].chars[c].start > 0
                             \/ line.words[w].chars[c].end > 0

\* processedLyricsJson
processedLyricsJson(json, durationMs) ==
    IF json.type = "null" THEN json
    ELSE IF hasTimingData(json.blocks) THEN json
    ELSE generateLinearTiming(json, durationMs)

(***************************************************************************)
(* The files a host can upload: a name that ends with .json or not, a text *)
(* that JSON.parse accepts or not, and the value it parses to.             *)
(***************************************************************************)
File(json, wellFormed, value) ==
    [json |-> json, wellFormed |-> wellFormed, value |-> value]

SyntaxError ==
    [type |-> "SyntaxError", blocksType |-> "absent", blocks |-> <<>>]

\* JSON.parse(e.target.result)
JSONparse(file) == IF file.wellFormed THEN file.value ELSE SyntaxError

\* a block object without a lines member
LinelessBlock == [text |-> <<>>, start |-> 0, end |-> 0, voice |-> 0]

\* a document with a line that has a text, a line of words (one with a char,
\* one without chars) and a line without timing; all the others are stamped
\* (s, e)
TimedDoc(s, e) ==
    LET Stamp(n) == [n EXCEPT !.start = s, !.end = e]
        x == [Stamp(MkWord(<<"x">>)) EXCEPT !.chars[1] = Stamp(@)]
        y == [Stamp(MkWord(<<"y">>)) EXCEPT !.hasChars = FALSE,
                                             !.chars = <<>>]
    IN << Stamp(MkBlock(<< Stamp(MkLine(<<"a">>, <<>>)),
                           [Stamp(MkLine(<<>>, <<>>)) EXCEPT
                               !.words = <<x, y>>],
                           MkLine(<<"b">>, <<>>) >>)) >>

\* the documents of the uploads: none, the segmented texts, the export of a
\* document nothing was recorded in, and the stamped ones
UploadDocs ==
    {<<>>, SegmentedWords, SegmentedBlocks, cleanupTimingData(SegmentedWords)}
        \cup {TimedDoc(s, e) : s \in 0..MaxStamp, e \in 0..MaxStamp}

\* the files the playback screen is given
PlaybackFiles ==
    {File(TRUE, FALSE, JsonNull), File(TRUE, TRUE, JsonNull),
     File(TRUE, TRUE, JsonScalar),
     File(TRUE, TRUE, JsonObject("absent", <<>>)),
     File(TRUE, TRUE, JsonObject("scalar", <<>>)),
     File(FALSE, TRUE, JsonObject("array", SegmentedBlocks)),
     File(TRUE, TRUE, JsonObject("array", <<LinelessBlock>>))}
        \cup {File(TRUE, TRUE, JsonObject("array", d)) : d \in UploadDocs}

\* the files the lyrics input page is given
InputFiles ==
    {File(TRUE, FALSE, JsonNull), File(TRUE, TRUE, JsonNull),
     File(TRUE, TRUE, JsonObject("absent", <<>>)),
     File(TRUE, TRUE, JsonObject("scalar", <<>>)),
     File(FALSE, TRUE, JsonObject("array", SegmentedBlocks)),
     File(TRUE, TRUE, JsonObject("array", <<LinelessBlock>>)),
     File(TRUE, TRUE, JsonObject("array", SegmentedBlocks)),
     File(TRUE, TRUE, JsonObject("array", SegmentedWords))}

InvalidFormat == "Invalid karaoke file format."
ErrorReading == "Error reading karaoke file."
SelectJson == "Please select a valid JSON karaoke file."

\* the state of TimingSyncPage, which the other pages leave alone
editing == <<blocks, recordingMode, activeTokenIndex, isRecording,
             wKeyPressed, paused, clock, unlockedModes, currentVoice,
             syncLocked, bound, timers, holds, startCommitted, voices,
             dataVoices>>

(***************************************************************************)
(* LyricsPlaybackScreen: host events.                                      *)
(***************************************************************************)
\* handleFileUpload with the reader's onload: reading null.blocks throws
\* inside the try
handleFileUpload(file) ==
    LET parsed == JSONparse(file)
    IN /\ IF ~file.json
          THEN alertMessage' = SelectJson /\ UNCHANGED lyricsJson
          ELSE IF parsed.type \in {"SyntaxError", "null"}
          THEN alertMessage' = ErrorReading /\ UNCHANGED lyricsJson
          ELSE IF parsed.blocksType = "array"
          THEN alertMessage' = "" /\ lyricsJson' = parsed
          ELSE alertMessage' = InvalidFormat /\ UNCHANGED lyricsJson
       /\ UNCHANGED <<currentTime, duration, karaokeData, lyrics, editing>>

\* handleLoadedMetadata: the audio element reports a duration of d ms
handleLoadedMetadata(d) ==
    /\ duration' = d
    /\ alertMessage' = ""
    /\ UNCHANGED <<lyricsJson, currentTime, karaokeData, lyrics, editing>>

\* handleTimeUpdate, the 16 ms interval and handleSeek: currentTime follows
\* the audio element, within the audio's duration
handleTimeUpdate(t) ==
    /\ t <= duration
    /\ currentTime' = t
    /\ alertMessage' = ""
    /\ UNCHANGED <<lyricsJson, duration, karaokeData, lyrics, editing>>

\* the tokens with a bar in the current render; there is none when the
\* render throws (block.lines.map on a block without lines)
RenderedTokens ==
    LET processed == processedLyricsJson(lyricsJson, duration)
    IN IF \/ processed.type # "object"
          \/ \E b \in 1..Len(processed.blocks) :
                "lines" \notin DOMAIN processed.blocks[b]
       THEN {}
       ELSE BarTokens(processed.blocks)

(***************************************************************************)
(* LyricsInputPage: host events.                                           *)
(***************************************************************************)
\* jsonData.blocks.map(block => block.lines.map(line => line.text)
\* .join('\n')).join('\n\n')
extractedLyrics(bs) ==
    Join([b \in 1..Len(bs) |->
            Join([l \in 1..Len(bs[b].lines) |-> bs[b].lines[l].text],
                 <<"\n">>)],
         <<"\n", "\n">>)

\* processJsonFile with the reader's onload: setKaraokeData precedes the
\* extraction of the preview text, which throws on a block without lines
processJsonFile(file) ==
    LET parsed == JSONparse(file)
    IN /\ IF ~file.json
          THEN alertMessage' = SelectJson /\ UNCHANGED <<karaokeData, lyrics>>
          ELSE IF parsed.type \in {"SyntaxError", "null"}
          THEN /\ alertMessage' = ErrorReading
               /\ UNCHANGED <<karaokeData, lyrics>>
          ELSE IF parsed.blocksType = "array"
          THEN /\ karaokeData' = parsed
               /\ IF \E b \in 1..Len(parsed.blocks) :
                        "lines" \notin DOMAIN parsed.blocks[b]
                  THEN alertMessage' = ErrorReading /\ UNCHANGED lyrics
                  ELSE /\ alertMessage' = ""
                       /\ lyrics' = extractedLyrics(parsed.blocks)
          ELSE /\ alertMessage' = InvalidFormat
               /\ UNCHANGED <<karaokeData, lyrics>>
       /\ UNCHANGED <<lyricsJson, currentTime, duration, editing>>

\* handleLyricsChange: the host types a text
handleLyricsChange(text) ==
    /\ lyrics' = text
    /\ alertMessage' = ""
    /\ UNCHANGED <<lyricsJson, currentTime, duration, karaokeData, editing>>

\* clearLyrics
clearLyrics ==
    /\ lyrics' = <<>>
    /\ karaokeData' = JsonNull
    /\ alertMessage' = ""
    /\ UNCHANGED <<lyricsJson, currentTime, duration, editing>>

(***************************************************************************)
(* Spec: the editing session, with every host event, over a segmented and  *)
(* an uploaded one-block document.                                         *)
(***************************************************************************)
\* the events of a recording session
Recording(maxHolds) ==
    \/ Tick
    \/ togglePlayPause
    \/ handleKeyDown(maxHolds)
    \/ handleKeyUp
    \/ TimerFires
    \/ \E m \in ModeSet : selectMode(m)
    \/ goToPreviousToken
    \/ goToNextToken
    \/ \E d \in {-1, 1} : navigateCurrentLevel(d)
    \/ exportKaraokeData

Next ==
    \/ Recording(MaxHolds)
    \/ \E d \in {-1, 1} : navigateParentLevel(d)
    \/ \E t \in 0..MaxTime : handleSeek(t)

Spec == Init /\ [][Next]_vars

(***************************************************************************)
(* SpecFallback: recordTimestamp and getTokensByMode as functions of the   *)
(* document, the mode and the index, over documents with absent arrays.    *)
(***************************************************************************)
\* an uploaded document whose first line ("a") has no words array, as an
\* export leaves a line without a timed word; the second line is "b"
WordlessLineDoc ==
    << MkBlock(<< [MkLine(<<"a">>, <<>>) EXCEPT !.hasWords = FALSE],
                  MkLine(<<"b">>, << <<"b">> >>) >>) >>

\* an uploaded document whose first word ("ab") has no chars array; the
\* second word is "c"
CharlessWordDoc ==
    [SegmentedWords EXCEPT ![1].lines[1].words[1] =
        [@ EXCEPT !.hasChars = FALSE, !.chars = <<>>]]

FallbackDocs == {WordlessLineDoc, CharlessWordDoc, SegmentedWords}

\* the page on one of the documents, in any mode, on any token of the mode
InitFallback ==
    /\ blocks \in FallbackDocs
    /\ recordingMode \in ModeSet
    /\ activeTokenIndex \in
          0..Len(getTokensByMode(blocks, recordingMode)) - 1
    /\ isRecording = FALSE
    /\ wKeyPressed = FALSE
    /\ paused = TRUE
    /\ clock = 0
    /\ unlockedModes = ModeSet
    /\ currentVoice = 1
    /\ syncLocked = FALSE
    /\ bound = [voice |-> 1, sync |-> FALSE]
    /\ timers = {}
    /\ holds = 0
    /\ startCommitted = FALSE
    /\ InitVoices(CreatedVoices)
    /\ lyricsJson = JsonNull
    /\ ScreensIdle

\* recordTimestamp(timestamp, type) as a function: the document it passes
\* to setKaraokeData for the mode and the index of the state
recordTimestampAt(type, t) ==
    /\ blocks' = recordTimestamp(blocks, recordingMode, activeTokenIndex,
                                 type, t, currentVoice)
    /\ UNCHANGED <<recordingMode, activeTokenIndex, isRecording, wKeyPressed,
                   paused, clock, unlockedModes, currentVoice, syncLocked,
                   bound, timers, holds, startCommitted, voices, dataVoices,
                   screens>>

NextFallback ==
    \E type \in {"start", "end"}, t \in 1..MaxStamp :
        recordTimestampAt(type, t)

SpecFallback == InitFallback /\ [][NextFallback]_vars

(***************************************************************************)
(* SpecBlocks: a recording session over the two-block document.            *)
(***************************************************************************)
NextBlocks == Recording(MaxHolds)

SpecBlocks == InitWith({SegmentedBlocks}) /\ [][NextBlocks]_vars

\* the two-block document with the ctrl + arrow keys
NextNavigate ==
    \/ Recording(MaxHolds)
    \/ \E d \in {-1, 1} : navigateParentLevel(d)

SpecNavigate == InitWith({SegmentedBlocks}) /\ [][NextNavigate]_vars

(***************************************************************************)
(* SpecDeep: a longer recording session over the one-line document, long   *)
(* enough to reach the chars level.                                        *)
(***************************************************************************)
NextDeep == Recording(MaxDeepHolds)

SpecDeep == InitWith({SegmentedWords}) /\ [][NextDeep]_vars

(***************************************************************************)
(* SpecSync: a session with the sync lock over uploaded documents of three *)
(* lines with timing, in and out of chronological order.                   *)
(***************************************************************************)
\* the text "p\nq\nr" with the lines stamped a, b and c (<<start, end>>)
StampedLines(a, b, c) ==
    LET doc == createKaraokeJSON(<< << <<"p">>, <<"q">>, <<"r">> >> >>)
        stamps == <<a, b, c>>
    IN [doc EXCEPT ![1].lines =
          [l \in 1..3 |-> [@[l] EXCEPT !.start = stamps[l][1],
                                        !.end = stamps[l][2]]]]

SyncDocs ==
    {StampedLines(<<0, 0>>, <<2, 2>>, <<1, 1>>),
     StampedLines(<<1, 1>>, <<0, 0>>, <<2, 2>>),
     StampedLines(<<0, 1>>, <<1, 2>>, <<2, 2>>),
     StampedLines(<<1, 1>>, <<2, 2>>, <<0, 0>>)}

\* the host records, navigates with the buttons and the arrow keys, seeks
\* and toggles the lock; the modes change by the offer at the end of a list
NextSync ==
    \/ Tick
    \/ togglePlayPause
    \/ handleKeyDown(MaxSyncHolds)
    \/ handleKeyUp
    \/ TimerFires
    \/ goToPreviousToken
    \/ goToNextToken
    \/ \E d \in {-1, 1} : navigateCurrentLevel(d)
    \/ \E t \in 0..MaxTime : handleSeek(t)
    \/ toggleSyncLocked

SpecSync == InitWith(SyncDocs) /\ [][NextSync]_vars

(***************************************************************************)
(* SpecSparse: a recording session over uploaded documents with an empty   *)
(* blocks array and with two blocks whose lines arrays are empty.          *)
(***************************************************************************)
EmptyDoc == <<>>

EmptyBlocks == << MkBlock(<<>>), MkBlock(<<>>) >>

NextSparse == Recording(MaxHolds)

SpecSparse == InitWith({EmptyDoc, EmptyBlocks}) /\ [][NextSparse]_vars

(***************************************************************************)
(* SpecVoices: a recording session with the voice panel over a block of    *)
(* two lines.                                                              *)
(***************************************************************************)
\* the text "d\ne" as segmented: one block of two lines
SegmentedLines == createKaraokeJSON(<< << <<"d">>, <<"e">> >> >>)

NextVoices ==
    \/ Tick
    \/ togglePlayPause
    \/ handleKeyDown(MaxVoiceHolds)
    \/ handleKeyUp
    \/ TimerFires
    \/ goToPreviousToken
    \/ goToNextToken
    \/ addVoice
    \/ \E id \in VoiceIds(voices) : removeVoice(id)
    \/ \E id \in VoiceIds(voices) : updateVoice(id, "x")
    \/ \E id \in VoiceIds(voices) \cup {0} : setCurrentVoice(id)
    \/ exportKaraokeData

SpecVoices == InitWith({SegmentedLines}) /\ [][NextVoices]_vars

(***************************************************************************)
(* SpecScreens: the playback screen, opened without a document or with the *)
(* preview of a document nothing was recorded in, and the lyrics input     *)
(* page.                                                                   *)
(***************************************************************************)
InitScreens ==
    /\ InitEditing({SegmentedBlocks})
    /\ ScreensIdle
    /\ lyricsJson \in {JsonNull,
                       JsonObject("array", cleanupTimingData(SegmentedBlocks))}

NextScreens ==
    \/ \E file \in PlaybackFiles : handleFileUpload(file)
    \/ \E d \in 0..MaxDuration : handleLoadedMetadata(d)
    \/ \E t \in 0..MaxPlayTime : handleTimeUpdate(t)
    \/ \E file \in InputFiles : processJsonFile(file)
    \/ \E text \in {<<"a">>} : handleLyricsChange(text)
    \/ clearLyrics

SpecScreens == InitScreens /\ [][NextScreens]_vars

(***************************************************************************)
(* Properties.                                                             *)
(***************************************************************************)
\* the step took the parent p to q by widening only, where kids are the
\* children after the step: a set bound does not move inwards, and a bound
\* moves only to the extreme of the validly timed children, when it was
\* unset or inside that extreme
WidenedOnly(p, q, kids) ==
    LET timed == {i \in 1..Len(kids) : kids[i].start > 0 /\ kids[i].end > 0}
    IN /\ p.start # 0 => q.start # 0 /\ q.start <= p.start
       /\ p.end # 0 => q.end >= p.end
       /\ q.start # p.start =>
            /\ timed # {}
            /\ \A i \in timed : q.start <= kids[i].start
            /\ \E i \in timed : q.start = kids[i].start
            /\ p.start = 0 \/ p.start > q.start
       /\ q.end # p.end =>
            /\ timed # {}
            /\ \A i \in timed : q.end >= kids[i].end
            /\ \E i \in timed : q.end = kids[i].end
            /\ p.end = 0 \/ p.end < q.end

\* C1: monotonic widening.  In every step, each node of a level coarser than
\* the recording mode (a block in lines, words or chars mode, a line in words
\* or chars mode, a word in chars mode) keeps a set start from increasing and
\* a set end from decreasing, and its start changes only when it was unset or
\* greater than the minimum start of its timed children, which it then takes;
\* symmetrically for its end.
C1_MonotonicWidening ==
    [][blocks' # blocks => \A b \in 1..Len(blocks) :
        /\ recordingMode # "blocks" =>
              WidenedOnly(blocks[b], blocks'[b], blocks'[b].lines)
        /\ \A l \in 1..Len(blocks[b].lines) :
            /\ recordingMode \in {"words", "chars"} =>
                  WidenedOnly(blocks[b].lines[l], blocks'[b].lines[l],
                              blocks'[b].lines[l].words)
            /\ \A w \in 1..Len(blocks[b].lines[l].words) :
                  recordingMode = "chars" =>
                      WidenedOnly(blocks[b].lines[l].words[w],
                                  blocks'[b].lines[l].words[w],
                                  blocks'[b].lines[l].words[w].chars)]_vars

\* a block with a set start over a validly timed line that starts later:
\* the bubble-up had a narrower child to compare with and did not shrink
C1_Witness ==
    \E b \in 1..Len(blocks) : \E l \in 1..Len(blocks[b].lines) :
        /\ blocks[b].start # 0
        /\ blocks[b].lines[l].start > blocks[b].start
        /\ blocks[b].lines[l].end > 0
        /\ recordingMode = "lines"


\* a timestamp is set: present and not 0
IsSet(x) == x # Undefined /\ x # 0

\* the (mode, index) pairs the unlock rule was evaluated with in a step: the
\* captured pair of a timer that fired, or the new mode and index of a step
\* that changed the document, the mode or the index
UnlockEvaluations ==
    IF timers' # timers /\ timers' \subseteq timers
    THEN timers \ timers'
    ELSE IF \/ blocks' # blocks
            \/ recordingMode' # recordingMode
            \/ activeTokenIndex' # activeTokenIndex
    THEN {Ctx(recordingMode', activeTokenIndex')}
    ELSE {}

\* the unlock rule, for the unlocked set U got from the document bs, the
\* current mode M and the active index idx
UnlockRule(bs, M, idx, U) ==
    LET active == getTokensByMode(bs, M)
        level(m) == getTokensByModeType(bs, m)
        activeSet == /\ idx < Len(active)
                     /\ IsSet(active[idx + 1].start)
                     /\ IsSet(active[idx + 1].end)
        allSet(m) == \A i \in 1..Len(level(m)) :
                        IsSet(level(m)[i].start) /\ IsSet(level(m)[i].end)
        pred(m) == Modes[ModeIndex(m) - 1]
    IN /\ M # "chars" /\ activeSet => Modes[ModeIndex(M) + 1] \in U
       /\ M # "chars" /\ allSet(M) => Modes[ModeIndex(M) + 1] \in U
       /\ \A X \in {"words", "chars"} \cap U :
             \/ X = M
             \/ allSet(pred(X))
             \/ pred(X) = M /\ activeSet

\* C2: the unlock rule.  Whenever the rule is evaluated with a document, a
\* current mode M and an active index, the mode after M is unlocked if the
\* active token of M has both start and end set, and also if every token of
\* level M has both set; and words or chars is unlocked only if one of the
\* two holds for its predecessor or it is the current mode.
C2_UnlockRule ==
    [][\A e \in UnlockEvaluations :
          UnlockRule(blocks', e.mode, e.idx, unlockedModes')]_vars

\* the partial unlock decided: in words mode the active word is timed, another
\* word is not, the lines are not all timed or the words are not, and chars
\* is unlocked
C2_Witness ==
    LET words == getTokensByModeType(blocks, "words")
    IN /\ recordingMode = "words"
       /\ activeTokenIndex < Len(words)
       /\ words[activeTokenIndex + 1].start > 0
       /\ words[activeTokenIndex + 1].end > 0
       /\ \E i \in 1..Len(words) : words[i].start = 0 /\ words[i].end = 0
       /\ "chars" \in unlockedModes

\* C3: a manual select of a mode that is not unlocked leaves the recording
\* mode and the active index unchanged; a manual select of an unlocked mode
\* makes exactly that mode the recording mode.
C3_ManualSelect ==
    [][\A m \in ModeSet :
          selectMode(m) =>
              IF m \in unlockedModes
              THEN recordingMode' = m
              ELSE /\ recordingMode' = recordingMode
                   /\ activeTokenIndex' = activeTokenIndex]_vars

\* lines mode before any recording (only a manual select leads there), with
\* words and chars still locked for a select to be rejected
C3_Witness ==
    /\ recordingMode = "lines"
    /\ holds = 0
    /\ unlockedModes = {"blocks", "lines"}

\* C4: in every reachable state the unlocked set contains blocks and lines.
C4_BaseModesUnlocked == {"blocks", "lines"} \subseteq unlockedModes

\* words mode with the unlocked set recomputed after a recording there
C4_Witness ==
    /\ recordingMode = "words"
    /\ holds = MaxHolds
    /\ ~isRecording
    /\ timers = {}


\* C5: a record (start or end) is a no-op whenever the active token is
\* whitespace-only, that is, its text trims to the empty text (the empty text
\* included): no start, end or voice of the document changes.
C5_WhitespaceNoOp ==
    [][LET tokens == getTokensByMode(blocks, recordingMode)
       IN (/\ activeTokenIndex < Len(tokens)
           /\ trim(tokens[activeTokenIndex + 1].text) = <<>>)
          => blocks' = blocks]_vars

\* C7: there is no discard path for a hold.  The W key-up that follows a
\* key-down which wrote a start timestamp writes the end timestamp (the
\* clock) into the active token and returns the recorder to idle, whatever
\* happened in between.
C7_KeyUpCommitsEnd ==
    [][(wKeyPressed /\ ~wKeyPressed' /\ isRecording /\ startCommitted) =>
          LET after == getTokensByMode(blocks', recordingMode)
          IN /\ ~isRecording'
             /\ activeTokenIndex < Len(after)
             /\ after[activeTokenIndex + 1].isNode
             /\ after[activeTokenIndex + 1].end = clock]_vars

\* a text of whitespace characters only
PureWhitespace(text) ==
    text # <<>> /\ \A i \in 1..Len(text) : text[i] \in WhiteSpace

\* the index of the nearest token that is not pure whitespace, from idx in
\* the direction dir (as a set: empty when there is none)
SkipTarget(tokens, idx, dir) ==
    {j \in 0..(Len(tokens) - 1) :
        /\ (j - idx) * dir > 0
        /\ ~PureWhitespace(tokens[j + 1].text)
        /\ \A k \in 0..(Len(tokens) - 1) :
              (k - idx) * dir > 0 /\ (j - k) * dir > 0
                  => PureWhitespace(tokens[k + 1].text)}

\* the cursor went to the skip target, or stayed when there is none
SkippedTo(dir) ==
    LET target == SkipTarget(getTokensByMode(blocks, recordingMode),
                             activeTokenIndex, dir)
    IN IF target = {} THEN activeTokenIndex' = activeTokenIndex
       ELSE activeTokenIndex' \in target

\* C8: whitespace skip.  goToNextToken, goToPreviousToken and the advance
\* within the mode after a key-up move the cursor to the nearest token in
\* the direction of travel whose text is not pure whitespace, and leave it
\* where it is when there is no such token.
C8_WhitespaceSkip ==
    [][/\ goToNextToken => SkippedTo(1)
       /\ goToPreviousToken => SkippedTo(-1)
       /\ (KeyUpRecording /\ recordingMode' = recordingMode) => SkippedTo(1)
      ]_vars

\* the cursor on the word after a whitespace word
C8_Witness ==
    LET tokens == getTokensByMode(blocks, recordingMode)
    IN /\ recordingMode = "words"
       /\ activeTokenIndex = 2
       /\ Len(tokens) = 3
       /\ PureWhitespace(tokens[2].text)
       /\ ~isRecording


\* C9: interpolation idempotence.  For the document of every reachable state
\* (partially timed ones and ones in the middle of a hold included), cleaning
\* up the cleaned-up document changes no field of it.
C9_CleanupIdempotent ==
    cleanupTimingData(cleanupTimingData(blocks)) = cleanupTimingData(blocks)


\* the document without its timings and voices
Strip(n) == [n EXCEPT !.start = 0, !.end = 0, !.voice = 0]

Shape(bs) ==
    [b \in 1..Len(bs) |->
        [Strip(bs[b]) EXCEPT !.lines =
            [l \in 1..Len(@) |->
                [Strip(@[l]) EXCEPT !.words =
                    [w \in 1..Len(@) |->
                        [Strip(@[w]) EXCEPT !.chars =
                            [c \in 1..Len(@) |-> Strip(@[c])]]]]]]]

\* the nodes of the document, as paths <<b>>, <<b, l>>, <<b, l, w>> and
\* <<b, l, w, c>>
Paths(bs) ==
    {<<b>> : b \in 1..Len(bs)}
        \cup {allLines(bs)[i] : i \in 1..Len(allLines(bs))}
        \cup {allWords(bs)[i] : i \in 1..Len(allWords(bs))}
        \cup {allChars(bs)[i] : i \in 1..Len(allChars(bs))}

Node(bs, p) ==
    CASE Len(p) = 1 -> bs[p[1]]
      [] Len(p) = 2 -> bs[p[1]].lines[p[2]]
      [] Len(p) = 3 -> bs[p[1]].lines[p[2]].words[p[3]]
      [] OTHER -> bs[p[1]].lines[p[2]].words[p[3]].chars[p[4]]

\* the path of the node the recorder writes for the mode and index, or <<>>
ActivePath(bs, mode, idx) ==
    LET flat == CASE mode = "blocks" -> [b \in 1..Len(bs) |-> <<b>>]
                  [] mode = "lines" -> allLines(bs)
                  [] mode = "words" -> allWords(bs)
                  [] OTHER -> allChars(bs)
    IN IF idx < Len(flat) THEN flat[idx + 1] ELSE <<>>

IsAncestor(p, q) == Len(p) < Len(q) /\ SubSeq(q, 1, Len(p)) = p

SameTiming(m, n) == m.start = n.start /\ m.end = n.end

\* what every step keeps of the document: its nodes, texts and positions,
\* the voice of every node but the active one, everything in blocks mode but
\* the active block, whose start or end becomes the clock, and the timing of
\* every node but the active one and the nodes the bubble-up may touch:
\* the ancestors of the active token (ancestorsOnly), or every node of a
\* level coarser than the recording mode
RecordFrame(ancestorsOnly) ==
    LET active == ActivePath(blocks, recordingMode, activeTokenIndex)
        Touchable(p) == IF ancestorsOnly THEN IsAncestor(p, active)
                        ELSE Len(p) < ModeIndex(recordingMode)
    IN /\ Shape(blocks') = Shape(blocks)
       /\ \A p \in Paths(blocks) :
             /\ p # active => Node(blocks', p).voice = Node(blocks, p).voice
             /\ p # active /\ ~Touchable(p) =>
                   SameTiming(Node(blocks', p), Node(blocks, p))
             /\ recordingMode = "blocks" /\ p # active =>
                   SameTiming(Node(blocks', p), Node(blocks, p))
             /\ recordingMode = "blocks" /\ p = active =>
                   \/ Node(blocks', p) = Node(blocks, p)
                   \/ /\ Node(blocks', p).start = clock
                      /\ Node(blocks', p).end = Node(blocks, p).end
                   \/ /\ Node(blocks', p).end = clock
                      /\ Node(blocks', p).start = Node(blocks, p).start

Partial(kids) ==
    LET timed == {i \in 1..Len(kids) : kids[i].start # 0 \/ kids[i].end # 0}
    IN timed # {} /\ Cardinality(timed) < Len(kids)

\* r = round(base + k * span / n), halves rounded up
IsRounded(r, base, k, span, n) ==
    /\ 2 * n * r - n <= 2 * (n * base + k * span)
    /\ 2 * (n * base + k * span) < 2 * n * r + n

\* the cleaned child out of the child in, child i (0-based) of n under a
\* parent with the given bounds, with the given voice to inherit
Distributed(out, in, i, n, parent, voice) ==
    /\ IsRounded(out.start, parent.start, i, parent.end - parent.start, n)
    /\ IsRounded(out.end, parent.start, i + 1, parent.end - parent.start, n)
    /\ out.voice = IF in.voice # 0 THEN in.voice ELSE voice

Stamped(n) == n.start # 0 \/ n.end # 0

SomeStamped(kids) == \E i \in 1..Len(kids) : Stamped(kids[i])

AllStamped(kids) == Len(kids) > 0 /\ \A i \in 1..Len(kids) : Stamped(kids[i])

\* the export has the blocks and lines of the document, a words array only
\* where the document has one, of the same length, and that array is
\* removed exactly when no word of it is stamped and left with its timings
\* when all are
WordsArraysKept ==
    /\ Len(Exported) = Len(blocks)
    /\ \A b \in 1..Len(blocks) :
          /\ Len(Exported[b].lines) = Len(blocks[b].lines)
          /\ \A l \in 1..Len(blocks[b].lines) :
                LET L == blocks[b].lines[l]
                    LX == Exported[b].lines[l]
                IN /\ LX.hasWords <=> (L.hasWords /\ SomeStamped(L.words))
                   /\ LX.hasWords => Len(LX.words) = Len(L.words)
                   /\ L.hasWords /\ AllStamped(L.words) =>
                         \A w \in 1..Len(L.words) :
                             SameTiming(LX.words[w], L.words[w])

\* the chars arrays of the words of the document: exported exactly when a
\* char of it is stamped (everywhere, or in the lines whose words array the
\* export keeps), with the same length, and with its timings when all are
CharsArraysKept(keptLinesOnly) ==
    \A b \in 1..Len(blocks) : \A l \in 1..Len(blocks[b].lines) :
        LET L == blocks[b].lines[l]
            LX == Exported[b].lines[l]
        IN \A w \in 1..Len(L.words) :
             LET W == L.words[w]
                 present == /\ LX.hasWords
                            /\ w <= Len(LX.words)
                            /\ LX.words[w].hasChars
             IN (keptLinesOnly => LX.hasWords) =>
                  /\ present <=> (W.hasChars /\ SomeStamped(W.chars))
                  /\ present =>
                        Len(LX.words[w].chars) = Len(W.chars)
                  /\ W.hasChars /\ AllStamped(W.chars) =>
                        /\ present
                        /\ \A c \in 1..Len(W.chars) :
                              SameTiming(LX.words[w].chars[c], W.chars[c])

Within(parent, child) ==
    Stamped(child) =>
        parent.start <= child.start /\ child.end <= parent.end

\* every stamped child of the document lies within its parent
Consistent(bs) ==
    \A b \in 1..Len(bs) :
        \A l \in 1..Len(bs[b].lines) :
            LET LX == bs[b].lines[l]
            IN /\ Within(bs[b], LX)
               /\ \A w \in 1..Len(LX.words) :
                     /\ Within(LX, LX.words[w])
                     /\ \A c \in 1..Len(LX.words[w].chars) :
                           Within(LX.words[w], LX.words[w].chars[c])

\* no recording is in progress and every node is either unstamped or has a
\* start and an end with 0 < start <= end
CompletelyStamped ==
    /\ ~isRecording
    /\ \A p \in Paths(blocks) :
          LET n == Node(blocks, p)
          IN \/ n.start = 0 /\ n.end = 0
             \/ 0 < n.start /\ n.start <= n.end

\* C12: in the exported document every stamped child lies within its
\* parent: parent.start <= child.start and child.end <= parent.end, for
\* blocks over lines, lines over words and words over chars.  Stated for
\* the documents whose recordings are all complete; the half-stamped ones
\* are left out, which only weakens the statement.
C12_ExportConsistent == CompletelyStamped => Consistent(Exported)

\* the percentage p is the number num / den
IsPct(p, num, den) == ~p.nan /\ p.num * den = num * p.den

\* the percentage p is 0 before the start, 100 from the end on and the
\* elapsed share of the token in between
IsProgressAt(p, start, end, t) ==
    IF t < start THEN IsPct(p, 0, 1)
    ELSE IF t >= end THEN IsPct(p, 100, 1)
    ELSE IsPct(p, (t - start) * 100, end - start)

InPercentRange(p) == ~p.nan /\ 0 <= p.num /\ p.num <= 100 * p.den

\* C13: for every token with a bar and the current time t, the progress is
\* 0 if t < start, 100 if t >= end, else (t - start) / (end - start) * 100,
\* always within [0, 100] (so 100 from the start on when start = end), for
\* getProgress as for getTokenProgress.
C13_TokenProgress ==
    \A token \in RenderedTokens :
        /\ IsProgressAt(getProgress(token.start, token.end, currentTime),
                        token.start, token.end, currentTime)
        /\ InPercentRange(getProgress(token.start, token.end, currentTime))
        /\ IsProgressAt(getTokenProgress(token, currentTime),
                        token.start, token.end, currentTime)
        /\ InPercentRange(getTokenProgress(token, currentTime))

\* p is less than q, for two percentages
PctLess(p, q) == ~p.nan /\ ~q.nan /\ p.num * q.den < q.num * p.den

\* the progress of the token is 0 at its start, 100 at its end and strictly
\* increasing in between, for both progress functions
ProgressBoundary(token) ==
    /\ IsPct(getProgress(token.start, token.end, token.start), 0, 1)
    /\ IsPct(getProgress(token.start, token.end, token.end), 100, 1)
    /\ IsPct(getTokenProgress(token, token.start), 0, 1)
    /\ IsPct(getTokenProgress(token, token.end), 100, 1)
    /\ \A t1, t2 \in 0..MaxPlayTime :
          token.start < t1 /\ t1 < t2 /\ t2 < token.end =>
              /\ PctLess(getProgress(token.start, token.end, t1),
                         getProgress(token.start, token.end, t2))
              /\ PctLess(getTokenProgress(token, t1),
                         getTokenProgress(token, t2))

\* C14 (as stated): for every timed token with a bar, progress(start) = 0,
\* progress(end) = 100, and progress is strictly increasing over the times
\* between start and end.
C14_BoundaryAllTimed ==
    \A token \in RenderedTokens : Stamped(token) => ProgressBoundary(token)

\* C14 (amended): the same for every token with start < end; a token with
\* start = end cannot have both progress(start) = 0 and progress(end) = 100.
C14_BoundaryProperTokens ==
    \A token \in RenderedTokens :
        token.start < token.end => ProgressBoundary(token)

\* a bar of a token long enough to have two times strictly inside it, drawn
\* at one of them
C14_Witness ==
    \E token \in RenderedTokens :
        /\ token.start + 3 <= token.end
        /\ token.end <= MaxPlayTime
        /\ token.start < currentTime /\ currentTime < token.end

\* the screen generates a linear timing: a document without timing and with
\* characters, and an audio duration
LinearGenerated ==
    /\ lyricsJson.type = "object"
    /\ ~hasTimingData(lyricsJson.blocks)
    /\ ~Malformed(lyricsJson.blocks)
    /\ duration > 0
    /\ totalChars(lyricsJson.blocks) > 0

\* the chars of the document the screen renders, in document order
LinearChars ==
    LET bs == processedLyricsJson(lyricsJson, duration).blocks
    IN [i \in 1..Len(allChars(bs)) |-> Node(bs, allChars(bs)[i])]

\* the stamps run from 0 to the duration, each char ending where the next
\* one starts
Cumulative(chars) ==
    /\ chars[1].start = 0
    /\ chars[Len(chars)].end = duration
    /\ \A i \in 1..Len(chars) - 1 : chars[i].end = chars[i + 1].start

\* a parent with children starts with the first to start and ends with the
\* last to end
Spans(parent, kids) ==
    Len(kids) > 0 =>
        /\ parent.start = SetMin({kids[i].start : i \in 1..Len(kids)})
        /\ parent.end = SetMax({kids[i].end : i \in 1..Len(kids)})

\* every word spans its chars, every line its words, every block its lines
BoundsFromDescendants ==
    LET bs == processedLyricsJson(lyricsJson, duration).blocks
    IN \A b \in 1..Len(bs) :
         /\ Spans(bs[b], bs[b].lines)
         /\ \A l \in 1..Len(bs[b].lines) :
              /\ Spans(bs[b].lines[l], bs[b].lines[l].words)
              /\ \A w \in 1..Len(bs[b].lines[l].words) :
                    Spans(bs[b].lines[l].words[w],
                          bs[b].lines[l].words[w].chars)

\* C15 (as stated): with total duration T over C > 0 characters, every char
\* lasts T / C, the stamps are cumulative from 0 to T and strictly
\* increasing from one char to the next, and every word, line and block
\* spans its descendants.
C15_ExactLinear ==
    LinearGenerated =>
        LET chars == LinearChars
            C == totalChars(lyricsJson.blocks)
        IN /\ Len(chars) = C
           /\ \A i \in 1..C : C * (chars[i].end - chars[i].start) = duration
           /\ Cumulative(chars)
           /\ \A i \in 1..C : chars[i].start < chars[i].end
           /\ BoundsFromDescendants

\* C15 (amended): char number k (0-based, of C) starts at round(k * T / C)
\* and ends at round((k + 1) * T / C), so that a char lasts T / C up to the
\* rounding and the stamps are cumulative from 0 to T and never decrease;
\* every word, line and block with descendants spans them.
C15_RoundedLinear ==
    LinearGenerated =>
        LET chars == LinearChars
            C == totalChars(lyricsJson.blocks)
        IN /\ Len(chars) = C
           /\ \A i \in 1..C :
                /\ IsRounded(chars[i].start, 0, i - 1, duration, C)
                /\ IsRounded(chars[i].end, 0, i, duration, C)
                /\ chars[i].start <= chars[i].end
           /\ Cumulative(chars)
           /\ BoundsFromDescendants

\* a linear timing over two words whose characters do not divide the
\* duration
C15_Witness ==
    /\ LinearGenerated
    /\ duration % totalChars(lyricsJson.blocks) # 0
    /\ duration > totalChars(lyricsJson.blocks)
    /\ \E b \in 1..Len(lyricsJson.blocks) :
         \E l \in 1..Len(lyricsJson.blocks[b].lines) :
            Len(lyricsJson.blocks[b].lines[l].words) > 1

\* some block, line, word or char of the document has a non-sentinel start
\* or end
AnyStamped(bs) == \E q \in Paths(bs) : Stamped(Node(bs, q))

\* C16: for a loaded document (every block with its lines), the screen
\* renders the loaded document unchanged if any of its tokens has timing, so
\* that a linear timing is generated only for a document without timing; and
\* generateLinearTiming returns its input unchanged when the document has no
\* characters at all.
C16_LinearOnlyUntimed ==
    (/\ lyricsJson.type = "object"
     /\ \A b \in 1..Len(lyricsJson.blocks) :
            "lines" \in DOMAIN lyricsJson.blocks[b]) =>
        /\ AnyStamped(lyricsJson.blocks) =>
              processedLyricsJson(lyricsJson, duration) = lyricsJson
        /\ totalChars(lyricsJson.blocks) = 0 =>
              generateLinearTiming(lyricsJson, duration) = lyricsJson

\* the text of the file is no JSON, or its value has no blocks array
Rejectable(file) ==
    ~file.wellFormed \/ file.value.blocksType # "array"

\* the upload is rejected (an alert, and the state as it was), or it is
\* accepted (no alert, and the value of the file as the loaded document)
UploadOutcome(file, loaded, others) ==
    IF Rejectable(file)
    THEN alertMessage' # "" /\ loaded' = loaded /\ others' = others
    ELSE alertMessage' = "" /\ loaded' = file.value

\* C20: an uploaded .json file whose text is no JSON, or whose value has no
\* blocks array, is rejected with an alert and leaves the loaded document
\* and the rest of the state unchanged; a file whose value has a blocks
\* array is accepted and its value becomes the loaded document, on the
\* playback screen (lyricsJson) as on the lyrics input page (karaokeData).
C20_UploadOutcome ==
    [][\A file \in PlaybackFiles \cup InputFiles :
          file.json =>
              /\ handleFileUpload(file) =>
                    UploadOutcome(file, lyricsJson,
                        <<currentTime, duration, karaokeData, lyrics,
                          editing>>)
              /\ processJsonFile(file) =>
                    UploadOutcome(file, karaokeData,
                        <<lyrics, lyricsJson, currentTime, duration,
                          editing>>)]_vars

\* the tokens of the active mode
ActiveTokens == getTokensByMode(blocks, recordingMode)

\* the 0-based indices of the tokens that contain the time t
Containing(tokens, t) ==
    {i \in 0..Len(tokens) - 1 :
        /\ tokens[i + 1].start # Undefined /\ tokens[i + 1].end # Undefined
        /\ tokens[i + 1].start <= t /\ t <= tokens[i + 1].end}

\* the 0-based indices of the tokens with a non-sentinel timing
TimedIndices(tokens) ==
    {i \in 0..Len(tokens) - 1 :
        /\ tokens[i + 1].start # Undefined /\ tokens[i + 1].end # Undefined
        /\ (tokens[i + 1].start # 0 \/ tokens[i + 1].end # 0)}

\* the indices the rules for a time that no token contains allow: the token
\* that follows a gap between two timed tokens with none between them (or
\* the token right after the first of the two), the first token (of the
\* list, or the first timed one) for a time before the first timed token,
\* the last token (of the list, or the last timed one) for a time after the
\* last timed token
OutsideTargets(tokens, t) ==
    LET timed == TimedIndices(tokens)
    IN {k \in 0..Len(tokens) - 1 :
          \/ \E i, j \in timed :
                /\ i < j
                /\ \A m \in timed : ~(i < m /\ m < j)
                /\ tokens[i + 1].end < t /\ t < tokens[j + 1].start
                /\ k \in {j, i + 1}
          \/ /\ timed # {}
             /\ t < tokens[SetMin(timed) + 1].start
             /\ k \in {0, SetMin(timed)}
          \/ /\ timed # {}
             /\ t > tokens[SetMax(timed) + 1].end
             /\ k \in {Len(tokens) - 1, SetMax(timed)}}

\* the step is a seek to t that the page performs with the sync lock on
SyncSeek(t) == handleSeek(t) /\ ~wKeyPressed /\ paused /\ syncLocked

\* C17: a sync-locked seek to t over a non-empty token list selects the
\* earliest token with start <= t <= end; when no token contains t it
\* selects the token after the gap t lies in, the first token when t is
\* before the first timed token, the last token when t is after the last
\* timed one; the selected index is always an index of the list.
C17_TimeToToken ==
    [][\A t \in 0..MaxTime :
          SyncSeek(t) /\ Len(ActiveTokens) > 0 =>
              /\ activeTokenIndex' \in 0..Len(ActiveTokens) - 1
              /\ Containing(ActiveTokens, t) # {} =>
                    activeTokenIndex' = SetMin(Containing(ActiveTokens, t))
              /\ (/\ Containing(ActiveTokens, t) = {}
                  /\ OutsideTargets(ActiveTokens, t) # {}) =>
                    activeTokenIndex' \in OutsideTargets(ActiveTokens, t)]_vars

\* C18: a seek gesture that arrives while the W key is held changes neither
\* the playhead nor the active token.
C18_SeekDroppedDuringHold ==
    [][\A t \in 0..MaxTime :
          handleSeek(t) /\ wKeyPressed =>
              clock' = clock /\ activeTokenIndex' = activeTokenIndex]_vars

\* the W key is held in a recording, the audio is paused and the lock is on:
\* a seek would move the playhead and look the token up if it were not
\* dropped
C18_Witness ==
    /\ wKeyPressed /\ isRecording /\ paused /\ syncLocked
    /\ clock > 0

\* C19: a seek that the page performs leaves the playhead at the time of
\* the gesture, whichever token it selects; a navigation step sets the
\* active token to the token navigated to, whatever the time lookup of the
\* playhead it jumps to would select.
C19_NoFeedback ==
    [][/\ \A t \in 0..MaxTime :
             handleSeek(t) /\ ~wKeyPressed /\ paused => clock' = t
       /\ goToPreviousToken /\ activeTokenIndex' # activeTokenIndex =>
             activeTokenIndex' = PrevNonSpace(ActiveTokens,
                                              activeTokenIndex - 1)
       /\ \A d \in {-1, 1} :
             navigateCurrentLevel(d) /\ activeTokenIndex' # activeTokenIndex
                 => activeTokenIndex' = activeTokenIndex + d]_vars

\* the lock is on and the active token contains the playhead without
\* starting at it, while an earlier token starts where the playhead is: a
\* seek selected a token whose start differs from the time sought, or a
\* navigation jumped to a time that the lookup gives to another token
C19_Witness ==
    /\ syncLocked /\ paused /\ ~wKeyPressed
    /\ recordingMode = "lines"
    /\ activeTokenIndex < Len(ActiveTokens)
    /\ LET token == ActiveTokens[activeTokenIndex + 1]
       IN \/ /\ token.start < clock /\ clock <= token.end
          \/ /\ token.start = clock
             /\ Containing(ActiveTokens, clock) # {}
             /\ SetMin(Containing(ActiveTokens, clock)) # activeTokenIndex

\* the W key goes down and starts a recording, or goes up in a recording:
\* the handler calls recordTimestamp
RecordCalled ==
    \/ ~wKeyPressed /\ wKeyPressed' /\ KeyDownStarts
    \/ wKeyPressed /\ ~wKeyPressed' /\ isRecording

\* C21: a record while activeTokenIndex is out of range for the token list
\* of the mode completes without an error and leaves the document, the
\* mode, the index and the unlocked set unchanged.
C21_OutOfRangeIgnored ==
    [][(/\ RecordCalled
        /\ activeTokenIndex >= Len(getTokensByMode(blocks, recordingMode)))
          => /\ ~recordTimestampThrows(blocks, recordingMode,
                                       activeTokenIndex)
             /\ UNCHANGED <<blocks, recordingMode, activeTokenIndex,
                            unlockedModes>>]_vars

\* C22: voice referential integrity.  Every token's voice is 0 or the id of
\* an entry of voices.
C22_VoicesResolve ==
    \A p \in Paths(blocks) :
        Node(blocks, p).voice \in {0} \cup VoiceIds(voices)

\* every entry of vs is an entry of ws, with its id and its name
KeepsVoices(vs, ws) ==
    \A i \in 1..Len(vs) : \E j \in 1..Len(ws) : ws[j] = vs[i]

\* C23: the voices the operator configured stay.  Unless the step is a
\* removeVoice or an updateVoice of the operator, every entry of voices is
\* still an entry of voices after the step, and of the exported document.
C23_VoicesKept ==
    [][\/ \E id \in VoiceIds(voices) : removeVoice(id)
       \/ \E id \in VoiceIds(voices) : updateVoice(id, "x")
       \/ /\ KeepsVoices(voices, voices')
          /\ KeepsVoices(voices, exportData'.voices)]_vars

\* the pair is the sentinel or an interval
WellFormed(n) == (n.start = 0 /\ n.end = 0) \/ n.start <= n.end

\* C24: timing well-formedness.  In every reachable state, the states in
\* the middle of a hold included, every token is the sentinel (start = 0 and
\* end = 0) or has start <= end.
C24_WellFormedTiming ==
    \A p \in Paths(blocks) : WellFormed(Node(blocks, p))

\* the nodes of a level in document order, as paths
LevelPaths(bs, mode) ==
    CASE mode = "blocks" -> [b \in 1..Len(bs) |-> <<b>>]
      [] mode = "lines" -> allLines(bs)
      [] mode = "words" -> allWords(bs)
      [] OTHER -> allChars(bs)

\* the 0-based indices at the level `mode` of the descendants of the node p
Descendants(bs, mode, p) ==
    {i \in 0..Len(LevelPaths(bs, mode)) - 1 :
        IsAncestor(p, LevelPaths(bs, mode)[i + 1])}

\* the cursor went from the token x of the mode A to its ancestor at the
\* level B (B coarser), or to its first descendant at the level B (B finer,
\* when x has a descendant there)
MappedPositionally(bs, A, x, B, y) ==
    LET from == LevelPaths(bs, A)
        to == LevelPaths(bs, B)
    IN (x < Len(from)) =>
          IF ModeIndex(B) < ModeIndex(A)
          THEN /\ y < Len(to)
               /\ IsAncestor(to[y + 1], from[x + 1])
          ELSE Descendants(bs, B, from[x + 1]) # {} =>
                  y = SetMin(Descendants(bs, B, from[x + 1]))

\* C25: cross-mode cursor mapping.  When the mode changes from A with the
\* cursor on the token x to B, the new active token is the ancestor of x at
\* the level B if B is coarser and the first descendant of x at the level B
\* if B is finer, by the positional indices of x, for the mode radios and
\* for the accepted offers at the end of a mode alike.
C25_CursorMapping ==
    [][recordingMode' # recordingMode =>
          MappedPositionally(blocks', recordingMode, activeTokenIndex,
                             recordingMode', activeTokenIndex')]_vars

\* the step is a W key-up in a recording whose advance finds no further
\* non-space token in the list of the mode
ModeFinished ==
    /\ wKeyPressed /\ ~wKeyPressed' /\ isRecording
    /\ activeTokenIndex < Len(ActiveTokens)
    /\ NextNonSpace(ActiveTokens, activeTokenIndex + 1) >= Len(ActiveTokens)

\* C26: mode completion.  After a key-up whose advance finds no further
\* non-space token in the mode M the mode is M (the offer declined, and the
\* index is unchanged) or the mode that follows M in the order blocks,
\* lines, words, chars (the offer accepted); when M is chars the mode and
\* the index are unchanged and the recorder is idle again.
C26_ModeCompletion ==
    [][ModeFinished =>
          /\ \/ /\ recordingMode' = recordingMode
                /\ activeTokenIndex' = activeTokenIndex
             \/ /\ ModeIndex(recordingMode) < 4
                /\ recordingMode' = Modes[ModeIndex(recordingMode) + 1]
          /\ ~isRecording' /\ ~wKeyPressed']_vars

\* chars mode was finished: the cursor is on the last character, which has
\* both timestamps, the recorder is idle and the audio paused by the key-up
C26_Witness ==
    /\ recordingMode = "chars"
    /\ ~isRecording /\ ~wKeyPressed /\ paused
    /\ Len(allChars(blocks)) > 0
    /\ activeTokenIndex = Len(allChars(blocks)) - 1
    /\ LET last == Node(blocks, allChars(blocks)[Len(allChars(blocks))])
       IN last.start # 0 /\ last.end # 0

\* the step is a W key-down that starts a recording on a non-space token
RecordsStart ==
    /\ ~wKeyPressed /\ wKeyPressed' /\ KeyDownStarts
    /\ RecordCommits(blocks, recordingMode, activeTokenIndex)
    /\ ActivePath(blocks, recordingMode, activeTokenIndex) # <<>>

\* the step is a W key-up that ends a recording on a non-space token
RecordsEnd ==
    /\ wKeyPressed /\ ~wKeyPressed' /\ isRecording
    /\ RecordCommits(blocks, recordingMode, activeTokenIndex)
    /\ ActivePath(blocks, recordingMode, activeTokenIndex) # <<>>

\* C27: a record of a start on a non-space active token sets that token's
\* voice to the current voice, whatever voice it had; a record of an end
\* leaves the token's voice unchanged; a record changes no ancestor's voice.
C27_StartStampsCurrentVoice ==
    [][LET active == ActivePath(blocks, recordingMode, activeTokenIndex)
       IN /\ RecordsStart =>
                Node(blocks', active).voice = currentVoice
          /\ RecordsEnd =>
                Node(blocks', active).voice = Node(blocks, active).voice
          /\ RecordsStart \/ RecordsEnd =>
                \A p \in Paths(blocks) :
                    IsAncestor(p, active) =>
                        Node(blocks', p).voice = Node(blocks, p).voice]_vars

\* the children of the node at the path p
Children(bs, p) ==
    CASE Len(p) = 1 -> bs[p[1]].lines
      [] Len(p) = 2 -> bs[p[1]].lines[p[2]].words
      [] Len(p) = 3 -> bs[p[1]].lines[p[2]].words[p[3]].chars
      [] OTHER -> <<>>

\* the ancestor a covers the token, and if it had no bounds before the step
\* it has exactly the least start and the greatest end of its children that
\* the filter timed accepts
Covers(a, before, token, kids, timed(_)) ==
    LET T == {i \in 1..Len(kids) : timed(kids[i])}
    IN /\ a.start <= token.start
       /\ a.end >= token.end
       /\ (before.start = 0 /\ before.end = 0 /\ T # {}) =>
             /\ a.start = SetMin({kids[i].start : i \in T})
             /\ a.end = SetMax({kids[i].end : i \in T})

\* the bubble-up of a record step in lines, words or chars mode that leaves
\* the active token with the timing that set accepts
BubbleUpReachesRoot(set(_), timed(_)) ==
    LET active == ActivePath(blocks, recordingMode, activeTokenIndex)
    IN (/\ RecordsStart \/ RecordsEnd
        /\ recordingMode # "blocks"
        /\ set(Node(blocks', active)))
          => \A p \in Paths(blocks) :
                IsAncestor(p, active) =>
                    Covers(Node(blocks', p), Node(blocks, p),
                           Node(blocks', active), Children(blocks', p),
                           timed)

\* C28: bubble-up reaches the root.  After a record in lines, words or chars
\* mode that leaves the active token with a start and an end (a pair other
\* than the sentinel 0/0 with start <= end), every ancestor a of the token
\* has a.start <= token.start and a.end >= token.end, and an ancestor that
\* had no bounds gets exactly the least start and the greatest end of its
\* timed children.
C28_BubbleUpReachesRoot ==
    [][BubbleUpReachesRoot(LAMBDA n : IsTimed(n) /\ n.start <= n.end,
                           IsTimed)]_vars

\* the sentinel for "not yet timed"
Untimed(n) == n.start = 0 /\ n.end = 0

\* the four tests give the node n the same answer as the sentinel: the
\* timed-children filter of the bubble-up and the unlock rule (both
\* HasValidTiming), the cleanup (IsTimed) and the has-timing check of the
\* playback, applied to the node alone
SameAnswer(n) ==
    /\ HasValidTiming(n) <=> ~Untimed(n)
    /\ IsTimed(n) <=> ~Untimed(n)
    /\ hasTimingData(<< [start |-> n.start, end |-> n.end] >>) <=> ~Untimed(n)

\* C29: all components agree on which tokens are not yet timed: for every
\* token of a reachable document, a token recorded from 0 ms or in the
\* middle of its hold included, the bubble-up filter, the unlock rule, the
\* export cleanup and the playback's has-timing check treat it as untimed
\* exactly when start = 0 and end = 0.
C29_SameSentinel ==
    \A p \in Paths(blocks) : SameAnswer(Node(blocks, p))

\* the mode one level up
ParentMode(mode) == Modes[ModeIndex(mode) - 1]

\* the 0-based position, among the nodes one level up, of the parent of the
\* token with the 0-based index idx of the mode
ParentIndex(bs, mode, idx) ==
    LET p == LevelPaths(bs, mode)[idx + 1]
        ups == LevelPaths(bs, ParentMode(mode))
    IN CHOOSE i \in 0..Len(ups) - 1 : ups[i + 1] = SubSeq(p, 1, Len(p) - 1)

\* the cursor moved to a token of the parent that is next to the current
\* token's parent in the direction d, clamped at the first and the last
ToAdjacentParent(bs, mode, idx, d, new) ==
    LET last == Len(LevelPaths(bs, ParentMode(mode))) - 1
        want == ParentIndex(bs, mode, idx) + d
    IN /\ new < Len(LevelPaths(bs, mode))
       /\ ParentIndex(bs, mode, new) =
             (IF want < 0 THEN 0 ELSE IF want > last THEN last ELSE want)

\* C30: parent-navigate with the direction d.  In lines, words or chars
\* mode the cursor moves to a token whose ancestor one level up is the
\* ancestor next (by d, clamped at the first and the last) to the ancestor
\* of the current token; in blocks mode nothing changes.  A call that sets
\* no index leaves the state as it is, so the first conjunct states what
\* staying requires and the second what a step of the handler requires.
C30_ParentNavigate ==
    /\ [](\A d \in {-1, 1} :
            (/\ ParentTarget(blocks, recordingMode, activeTokenIndex, d) < 0
             /\ recordingMode # "blocks"
             /\ activeTokenIndex < Len(LevelPaths(blocks, recordingMode)))
               => ToAdjacentParent(blocks, recordingMode, activeTokenIndex,
                                   d, activeTokenIndex))
    /\ [][\A d \in {-1, 1} :
            navigateParentLevel(d) =>
                IF recordingMode = "blocks"
                THEN UNCHANGED <<blocks, recordingMode, activeTokenIndex>>
                ELSE (activeTokenIndex < Len(LevelPaths(blocks, recordingMode)))
                        => /\ recordingMode' = recordingMode
                           /\ ToAdjacentParent(blocks, recordingMode,
                                               activeTokenIndex, d,
                                               activeTokenIndex')]_vars

\* the text field of every node of the document
Texts(bs) == [p \in Paths(bs) |-> Node(bs, p).text]

\* C31: exportKaraokeData leaves the editing document as it is (timings,
\* words and chars arrays, text); the text of a node with children is
\* cleared in the exported copy only, and no event of the page (record,
\* navigation, mode switch, seek, export) changes a text field: a step
\* that changes the document is no export and keeps every text.
C31_ExportKeepsState ==
    [][blocks' # blocks =>
          /\ ~exportKaraokeData
          /\ Texts(blocks') = Texts(blocks)]_vars

\* a recorded document whose export differs from it in a text field: the
\* copy is cleared, the page is not
C31_Witness ==
    /\ \E p \in Paths(blocks) : HasValidTiming(Node(blocks, p))
    /\ \E p \in Paths(blocks) \cap Paths(Exported) :
          /\ Node(blocks, p).text # <<>>
          /\ Node(Exported, p).text = <<>>

\* C32: between events the unlocked set is the unlock rule evaluated on the
\* current document, mode and active index; a recompute that a record
\* scheduled never leaves the result of a mode or an index that has since
\* changed.
C32_UnlockOnCurrentState ==
    unlockedModes =
        updateUnlockedModes(blocks, recordingMode, activeTokenIndex)

\* the ids of the list are unique and positive and the list is not empty
VoicesWellFormed(vs) ==
    /\ Len(vs) >= 1
    /\ \A i \in 1..Len(vs) : vs[i].id > 0
    /\ \A i, j \in 1..Len(vs) : vs[i].id = vs[j].id => i = j

\* C33: the voice ids stay unique and greater than 0 and the list never
\* becomes empty (removing the last voice changes nothing); removing the
\* current voice moves currentVoice to a voice that is still in the list.
C33_VoiceListWellFormed ==
    /\ []VoicesWellFormed(voices)
    /\ [][\A id \in VoiceIds(voices) :
            removeVoice(id) /\ currentVoice = id
                => currentVoice' \in VoiceIds(voices')]_vars

\* the first voice was removed after a second was added, and the second is
\* the current voice
C33_Witness ==
    /\ VoiceIds(voices) = {2}
    /\ currentVoice = 2

\* C34: in every state of a recording session, a parent with a fully timed
\* child (start > 0 and end > 0) starts no later and ends no earlier than
\* the child.
C34_InteractiveContainment ==
    \A p, c \in Paths(blocks) :
        IsAncestor(p, c) /\ Len(c) = Len(p) + 1
            /\ HasValidTiming(Node(blocks, c))
                => /\ Node(blocks, p).start <= Node(blocks, c).start
                   /\ Node(blocks, p).end >= Node(blocks, c).end

\* C35: the start and the end of one hold are written to the same token of
\* the same mode, whatever navigation happens while the key is held.
\* During the first hold of a session the token that got the start is the
\* only node with a voice; the key-up that writes the end writes it to the
\* active token of the current mode.
C35_HoldOnOneToken ==
    [][(/\ isRecording /\ ~isRecording'
        /\ holds = 1
        /\ startCommitted
        /\ bound.voice # 0
        /\ RecordCommits(blocks, recordingMode, activeTokenIndex)
        /\ KeyUpRecording)
          => Node(blocks, ActivePath(blocks, recordingMode,
                                     activeTokenIndex)).voice # 0]_vars

C37_CurrentModeUnlocked == recordingMode \in unlockedModes

\* the path of the document node a token stands for (no node has a path
\* with a component 0, the image of an undefined index)
TokenPath(tok) ==
    CASE tok.type = "block" -> <<tok.blockIndex + 1>>
      [] tok.type = "line" -> <<tok.blockIndex + 1, tok.lineIndex + 1>>
      [] tok.type = "word" ->
           <<tok.blockIndex + 1, tok.lineIndex + 1, tok.wordIndex + 1>>
      [] OTHER ->
           <<tok.blockIndex + 1, tok.lineIndex + 1, tok.wordIndex + 1,
             tok.charIndex + 1>>

\* entry i of the token list of the mode and entry i of the list that
\* recordTimestamp flattens are the same node of the document
SameNodeAt(bs, mode, i) ==
    /\ i <= Len(LevelPaths(bs, mode))
    /\ getTokensByMode(bs, mode)[i].isNode
    /\ TokenPath(getTokensByMode(bs, mode)[i]) = LevelPaths(bs, mode)[i]

====
